---------------------------- MODULE Spec2Model ----------------------------
(***************************************************************************)
(* Streaming subsystem of tv_scraper: the StreamHandler framing and        *)
(* handshake, Streamer.get_candles with its receive loop, and the          *)
(* generator receive loops of Streamer and RealTimeData.                   *)
(*                                                                         *)
(* Text on the wire is a sequence of symbols.  A symbol is a one-character *)
(* string, or the name of an entry of PacketTable, which stands for the    *)
(* whole JSON text of that packet (a text that holds no frame header).     *)
(***************************************************************************)
EXTENDS Integers, Sequences, FiniteSets, TLC

(***************************************************************************)
(* Bounds of the model.                                                    *)
(***************************************************************************)
MaxTok == 3

MaxParams == 2

(***************************************************************************)
(* Characters and text helpers.                                            *)
(***************************************************************************)
DQ == "\""

BS == "\\"

DigitChars == <<"0", "1", "2", "3", "4", "5", "6", "7", "8", "9">>

IsDigit(c) == \E d \in 1..10 : DigitChars[d] = c

DigitValue(c) == (CHOOSE d \in 1..10 : DigitChars[d] = c) - 1

\* str(n) for n >= 0, as the f-string of prepend_header and json.dumps print it
RECURSIVE Digits(_)
Digits(n) == IF n < 10 THEN <<DigitChars[n + 1]>>
             ELSE Digits(n \div 10) \o <<DigitChars[(n % 10) + 1]>>

HeaderMark == <<"~", "m", "~">>

StartsWithAt(s, i, pre) ==
    /\ i + Len(pre) - 1 <= Len(s)
    /\ \A k \in 1..Len(pre) : s[i + k - 1] = pre[k]

\* first index >= i that holds no digit (Len(s) + 1 when the digits run to the end)
RECURSIVE DigitsEnd(_, _)
DigitsEnd(s, i) == IF i <= Len(s) /\ IsDigit(s[i]) THEN DigitsEnd(s, i + 1) ELSE i

(***************************************************************************)
(* JSON values: strings, non-negative integers, arrays, objects.           *)
(***************************************************************************)
JStr(s) == [t |-> "s", s |-> s]

JNum(n) == [t |-> "n", n |-> n]

JArr(a) == [t |-> "a", a |-> a]

JObj(o) == [t |-> "o", o |-> o]

JNull == [t |-> "z"]

\* a variant of the encoder that escapes nothing
NoEscape(s) == s

\* json.dumps of a str: quotes and backslashes are escaped
RECURSIVE Escape(_)
Escape(s) == IF s = <<>> THEN <<>>
             ELSE (IF Head(s) = DQ THEN <<BS, DQ>>
                   ELSE IF Head(s) = BS THEN <<BS, BS>>
                   ELSE <<Head(s)>>) \o Escape(Tail(s))

RECURSIVE EncVal(_)
RECURSIVE EncElems(_)
RECURSIVE EncMembers(_)
\* json.dumps(value, separators=(",", ":"))
EncVal(v) == CASE v.t = "s" -> <<DQ>> \o Escape(v.s) \o <<DQ>>
               [] v.t = "n" -> Digits(v.n)
               [] v.t = "a" -> <<"[">> \o EncElems(v.a) \o <<"]">>
               [] v.t = "o" -> <<"{">> \o EncMembers(v.o) \o <<"}">>
               [] OTHER -> <<"n", "u", "l", "l">>

EncElems(a) == IF a = <<>> THEN <<>>
               ELSE IF Len(a) = 1 THEN EncVal(a[1])
               ELSE EncVal(a[1]) \o <<",">> \o EncElems(Tail(a))

EncMembers(o) ==
    IF o = <<>> THEN <<>>
    ELSE LET one == <<DQ>> \o Escape(o[1].k) \o <<DQ, ":">> \o EncVal(o[1].v)
         IN IF Len(o) = 1 THEN one ELSE one \o <<",">> \o EncMembers(Tail(o))

ParseFail == [ok |-> FALSE, v |-> JNull, nxt |-> 0]

ParseOk(v, nxt) == [ok |-> TRUE, v |-> v, nxt |-> nxt]

\* the body of a JSON string starting after its opening quote at index i
RECURSIVE ParseStrBody(_, _, _)
ParseStrBody(s, i, acc) ==
    IF i > Len(s) THEN ParseFail
    ELSE IF s[i] = DQ THEN ParseOk(JStr(acc), i + 1)
    ELSE IF s[i] = BS
         THEN IF i + 1 <= Len(s) /\ s[i + 1] \in {DQ, BS}
              THEN ParseStrBody(s, i + 2, Append(acc, s[i + 1]))
              ELSE ParseFail
    ELSE IF Len(s[i]) = 1 THEN ParseStrBody(s, i + 1, Append(acc, s[i]))
    ELSE ParseFail

RECURSIVE NumValue(_, _, _)
NumValue(s, i, e) == IF i >= e THEN 0
                     ELSE NumValue(s, i, e - 1) * 10 + DigitValue(s[e - 1])

\* a JSON integer: "0", or digits with no leading zero
ParseNum(s, i) ==
    LET e == DigitsEnd(s, i)
    IN IF e = i THEN ParseFail
       ELSE IF s[i] = "0" THEN ParseOk(JNum(0), i + 1)
       ELSE ParseOk(JNum(NumValue(s, i, e)), e)

RECURSIVE ParseValue(_, _)
RECURSIVE ParseElems(_, _, _)
RECURSIVE ParseMembers(_, _, _)
ParseValue(s, i) ==
    IF i > Len(s) THEN ParseFail
    ELSE IF s[i] = DQ THEN ParseStrBody(s, i + 1, <<>>)
    ELSE IF s[i] = "[" THEN
         IF i + 1 <= Len(s) /\ s[i + 1] = "]" THEN ParseOk(JArr(<<>>), i + 2)
         ELSE ParseElems(s, i + 1, <<>>)
    ELSE IF s[i] = "{" THEN
         IF i + 1 <= Len(s) /\ s[i + 1] = "}" THEN ParseOk(JObj(<<>>), i + 2)
         ELSE ParseMembers(s, i + 1, <<>>)
    ELSE IF IsDigit(s[i]) THEN ParseNum(s, i)
    ELSE ParseFail

ParseElems(s, i, acc) ==
    LET r == ParseValue(s, i)
    IN IF ~r.ok \/ r.nxt > Len(s) THEN ParseFail
       ELSE IF s[r.nxt] = "," THEN ParseElems(s, r.nxt + 1, Append(acc, r.v))
       ELSE IF s[r.nxt] = "]" THEN ParseOk(JArr(Append(acc, r.v)), r.nxt + 1)
       ELSE ParseFail

ParseMembers(s, i, acc) ==
    IF i > Len(s) \/ s[i] # DQ THEN ParseFail
    ELSE LET k == ParseStrBody(s, i + 1, <<>>)
         IN IF ~k.ok \/ k.nxt > Len(s) \/ s[k.nxt] # ":" THEN ParseFail
            ELSE LET r == ParseValue(s, k.nxt + 1)
                     m == Append(acc, [k |-> k.v.s, v |-> r.v])
                 IN IF ~r.ok \/ r.nxt > Len(s) THEN ParseFail
                    ELSE IF s[r.nxt] = "," THEN ParseMembers(s, r.nxt + 1, m)
                    ELSE IF s[r.nxt] = "}" THEN ParseOk(JObj(m), r.nxt + 1)
                    ELSE ParseFail

\* json.loads of a text written in characters: the whole text must be one value
ParseText(s) ==
    LET r == ParseValue(s, 1)
    IN IF r.ok /\ r.nxt = Len(s) + 1 THEN r ELSE ParseFail

(***************************************************************************)
(* StreamHandler: message framing.                                         *)
(***************************************************************************)
prepend_header(message) ==
    HeaderMark \o Digits(Len(message)) \o HeaderMark \o message

construct_message(func, param_list) ==
    EncVal(JObj(<<[k |-> <<"m">>, v |-> JStr(func)],
                  [k |-> <<"p">>, v |-> JArr(param_list)]>>))

create_message(func, param_list) ==
    prepend_header(construct_message(func, param_list))

(***************************************************************************)
(* The receive loop's regular expressions.                                 *)
(***************************************************************************)
\* ~m~\d+~m~ matched at index i: the index after the match, 0 when none
MatchHeaderAt(s, i) ==
    IF ~StartsWithAt(s, i, HeaderMark) THEN 0
    ELSE LET e == DigitsEnd(s, i + 3)
         IN IF e > i + 3 /\ StartsWithAt(s, e, HeaderMark) THEN e + 3 ELSE 0

\* re.split(r"~m~\d+~m~", s): the pieces between the leftmost matches
RECURSIVE SplitFrom(_, _, _, _)
SplitFrom(s, i, start, acc) ==
    IF i > Len(s) THEN Append(acc, SubSeq(s, start, Len(s)))
    ELSE LET e == MatchHeaderAt(s, i)
         IN IF e # 0 THEN SplitFrom(s, e, e, Append(acc, SubSeq(s, start, i - 1)))
            ELSE SplitFrom(s, i + 1, start, acc)

\* parts = [x for x in re.split(r"~m~\d+~m~", result) if x]
SplitParts(result) ==
    SelectSeq(SplitFrom(result, 1, 1, <<>>), LAMBDA x : x # <<>>)

\* re.match(r"~m~\d+~m~~h~\d+$", result)
IsHeartbeat(result) ==
    LET e == MatchHeaderAt(result, 1)
    IN /\ e # 0
       /\ StartsWithAt(result, e, <<"~", "h", "~">>)
       /\ LET d == DigitsEnd(result, e + 3)
          IN /\ d > e + 3
             /\ \/ d = Len(result) + 1
                \/ d = Len(result) /\ result[d] = "\n"

(***************************************************************************)
(* Program constants.                                                      *)
(***************************************************************************)
\* streamer.py:144  "if i > 15"
CeilingIndex == 15

\* streamer.py:348  "len(val["st"]) > 10"
BurstThreshold == 10

\* streamer.py:302  study_id = f"st{9 + idx}"
StudyBase == 9

\* utils.py:24  retries: int = 3
DefaultRetries == 3

_QUOTE_FIELDS ==
    <<"ch", "chp", "current_session", "description", "local_description",
      "language", "exchange", "fractional", "is_tradable", "lp",
      "lp_time", "minmov", "minmove2", "original_name", "pricescale",
      "pro_name", "short_name", "type", "update_mode", "volume",
      "currency_code", "rchp", "rtc", "high_price", "low_price", "open_price",
      "prev_close_price", "bid", "ask", "bid_size", "ask_size">>

_TIMEFRAME_MAP ==
    [tf \in {"1m", "5m", "15m", "30m", "1h", "2h", "4h", "1d", "1w", "1M"} |->
        CASE tf = "1m" -> "1"
          [] tf = "5m" -> "5"
          [] tf = "15m" -> "15"
          [] tf = "30m" -> "30"
          [] tf = "1h" -> "60"
          [] tf = "2h" -> "120"
          [] tf = "4h" -> "240"
          [] tf = "1d" -> "1D"
          [] tf = "1w" -> "1W"
          [] tf = "1M" -> "1M"]

STATUS_SUCCESS == "success"

STATUS_FAILED == "failed"

(***************************************************************************)
(* Python dictionaries whose order of keys matters are sequences of        *)
(* [k, v] pairs; the others are records.                                   *)
(***************************************************************************)
HasKey(d, key) == \E n \in 1..Len(d) : d[n].k = key

\* d[key] of a dict that holds key (the last pair with that key)
Lookup(d, key) ==
    d[CHOOSE n \in 1..Len(d) :
        d[n].k = key /\ \A q \in (n + 1)..Len(d) : d[q].k # key].v

\* d[key] = val: an existing key keeps its place, a new one goes last
DictSet(d, key, val) ==
    IF HasKey(d, key)
    THEN [n \in 1..Len(d) |-> IF d[n].k = key THEN [k |-> key, v |-> val] ELSE d[n]]
    ELSE Append(d, [k |-> key, v |-> val])

\* d.update(e)
RECURSIVE DictUpdate(_, _)
DictUpdate(d, e) ==
    IF e = <<>> THEN d
    ELSE DictUpdate(DictSet(d, Head(e).k, Head(e).v), Tail(e))

Keys(d) == {d[n].k : n \in 1..Len(d)}

(***************************************************************************)
(* The packets the vendor can send.  PS is a string element of "p", PD a   *)
(* dict element.                                                           *)
(***************************************************************************)
PS(x) == [t |-> "s", s |-> x]

PD(d) == [t |-> "d", d |-> d]

\* n study items [{"i": k, "v": [timestamp, value0, value1]}, ...]
StudyItems(n, base) ==
    [k \in 1..n |-> [i |-> k - 1, v |-> <<1700000000 + k, base + k, base>>]]

Candle(idx, ts, withVolume) ==
    [i |-> idx,
     v |-> IF withVolume THEN <<ts, 100, 105, 99, 102, 5000>>
           ELSE <<ts, 100, 105, 99, 102>>]

TimescaleUpdate(entries) ==
    [m |-> "timescale_update",
     p |-> <<PS("cs"), PD(<<[k |-> "sds_1", v |-> [s |-> entries]]>>)>>]

DataUpdate(studies) == [m |-> "du", p |-> <<PS("cs"), PD(studies)>>]

Study(id, items) == [k |-> id, v |-> [st |-> items]]

QuoteData(v) ==
    [m |-> "qsd",
     p |-> <<PS("qs"), PD(<<[k |-> "n", v |-> "BINANCE:BTCUSDT"],
                            [k |-> "v", v |-> v]>>)>>]

PacketTable ==
    [name \in {"{TS_A}", "{TS_B}", "{TS_E}", "{TS_X}", "{DU_9}", "{DU_9s}",
               "{DU_10}", "{DU_11}", "{QSD}", "{QSD_N}", "{OTHER}", "{NO_M}"} |->
        CASE name = "{TS_A}" -> TimescaleUpdate(<<Candle(0, 1700000000, TRUE)>>)
          [] name = "{TS_B}" -> TimescaleUpdate(<<Candle(0, 1700000060, FALSE),
                                                 Candle(1, 1700000120, FALSE)>>)
          [] name = "{TS_E}" -> TimescaleUpdate(<<>>)
          \* an entry without "v"
          [] name = "{TS_X}" -> TimescaleUpdate(<<[i |-> 0]>>)
          [] name = "{DU_9}" -> DataUpdate(<<Study("st9", StudyItems(11, 50))>>)
          [] name = "{DU_9s}" -> DataUpdate(<<Study("st9", StudyItems(10, 60))>>)
          [] name = "{DU_10}" ->
                DataUpdate(<<[k |-> "sds_1", v |-> [s |-> <<>>]],
                             Study("st10", StudyItems(11, 80)),
                             Study("st9", StudyItems(12, 70))>>)
          [] name = "{DU_11}" -> DataUpdate(<<Study("st11", StudyItems(11, 90))>>)
          [] name = "{QSD}" ->
                QuoteData(<<[k |-> "lp", v |-> 42000], [k |-> "volume", v |-> 100],
                            [k |-> "ch", v |-> 10], [k |-> "short_name", v |-> "BTC"]>>)
          [] name = "{QSD_N}" -> [m |-> "qsd", p |-> <<PS("qs")>>]
          [] name = "{OTHER}" -> [m |-> "series_loading", p |-> <<PS("cs")>>]
          [] name = "{NO_M}" -> [p |-> <<>>]]

\* json.loads(part): a packet's text, or a text written in characters
JsonLoads(part) ==
    IF Len(part) = 1 /\ part[1] \in DOMAIN PacketTable
    THEN [ok |-> TRUE, v |-> PD(PacketTable[part[1]])]
    ELSE LET r == ParseText(part) IN [ok |-> r.ok, v |-> r.v]

IsDict(v) == v.t \in {"d", "o"}

\* pkt.get("m"): the texts written in characters spell none of the method names
PktMethod(v) ==
    IF v.t = "d" /\ "m" \in DOMAIN v.d THEN v.d.m ELSE "None"

(***************************************************************************)
(* Streamer: extraction of candles and indicator values from a packet.     *)
(* A call returns Ret(value) or raises: Raise(name of the exception).      *)
(***************************************************************************)
Ret(val) == [ok |-> TRUE, val |-> val, exc |-> ""]

Raise(exc) == [ok |-> FALSE, val |-> <<>>, exc |-> exc]

EmptyDict == <<>>

OhlcvRecord(entry) ==
    LET rec == [index |-> entry.i, timestamp |-> entry.v[1], open |-> entry.v[2],
                high |-> entry.v[3], low |-> entry.v[4], close |-> entry.v[5]]
    IN IF Len(entry.v) > 5 THEN rec @@ [volume |-> entry.v[6]] ELSE rec

_serialize_ohlcv(raw_data) ==
    LET p == IF "p" \in DOMAIN raw_data THEN raw_data.p
             ELSE <<PD(EmptyDict), PD(EmptyDict)>>
    IN IF Len(p) < 2 THEN Raise("IndexError")
       ELSE IF p[2].t # "d" THEN Raise("AttributeError")
       ELSE LET sds == IF HasKey(p[2].d, "sds_1") THEN Lookup(p[2].d, "sds_1")
                       ELSE EmptyDict
                ohlcv_entries == IF "s" \in DOMAIN sds THEN sds.s ELSE <<>>
            IN IF \E n \in 1..Len(ohlcv_entries) :
                     \/ {"i", "v"} \ DOMAIN ohlcv_entries[n] # {}
                     \/ Len(ohlcv_entries[n].v) < 5
               THEN Raise("KeyError")
               ELSE Ret([n \in 1..Len(ohlcv_entries) |->
                            OhlcvRecord(ohlcv_entries[n])])

_extract_ohlcv_from_stream(pkt) ==
    IF ~IsDict(pkt) THEN Raise("AttributeError")
    ELSE IF PktMethod(pkt) = "timescale_update" THEN _serialize_ohlcv(pkt.d)
    ELSE Ret(<<>>)

\* key.startswith("st"), for the keys of the model
StartsWithSt(key) == key \in {"st" \o ToString(n) : n \in 0..99}

\* {"index": item["i"], "timestamp": item["v"][0], "0": item["v"][1], ...}
IndicatorRecord(item) ==
    [index |-> item.i, timestamp |-> item.v[1]]
        @@ [key \in {ToString(n - 2) : n \in 2..Len(item.v)} |->
               item.v[(CHOOSE n \in 2..Len(item.v) : ToString(n - 2) = key)]]

\* a variant of the filter whose threshold lets an array of 10 entries pass
ContributesFromTen(pair, map) ==
    /\ StartsWithSt(pair.k)
    /\ pair.k \in DOMAIN map
    /\ "st" \in DOMAIN pair.v
    /\ Len(pair.v.st) >= BurstThreshold

\* the pairs of p_data[1] that pass the filter of lines 347-348
Contributes(pair, map) ==
    /\ StartsWithSt(pair.k)
    /\ pair.k \in DOMAIN map
    /\ "st" \in DOMAIN pair.v
    /\ Len(pair.v.st) > BurstThreshold

RECURSIVE CollectIndicators(_, _, _)
CollectIndicators(items, map, acc) ==
    IF items = <<>> THEN acc
    ELSE LET pair == Head(items)
         IN IF Contributes(pair, map)
            THEN CollectIndicators(Tail(items), map,
                     DictSet(acc, map[pair.k],
                             [n \in 1..Len(pair.v.st) |->
                                 IndicatorRecord(pair.v.st[n])]))
            ELSE CollectIndicators(Tail(items), map, acc)

_extract_indicator_from_stream(pkt, map) ==
    IF ~IsDict(pkt) THEN Raise("AttributeError")
    ELSE IF PktMethod(pkt) # "du" THEN Ret(EmptyDict)
    ELSE LET p_data == IF "p" \in DOMAIN pkt.d THEN pkt.d.p ELSE <<>>
         IN IF Len(p_data) <= 1 \/ p_data[2].t # "d" THEN Ret(EmptyDict)
            ELSE IF \E n \in 1..Len(p_data[2].d) :
                      /\ Contributes(p_data[2].d[n], map)
                      /\ \E q \in 1..Len(p_data[2].d[n].v.st) :
                            LET item == p_data[2].d[n].v.st[q]
                            IN {"i", "v"} \ DOMAIN item # {} \/ Len(item.v) < 1
                 THEN Raise("KeyError")
                 ELSE Ret(CollectIndicators(p_data[2].d, map, EmptyDict))

\* a variant of the stop condition that leaves the indicators out
StopOnCandlesOnly(ohlcv, inds, numb, flag, expected) == Len(ohlcv) >= numb

\* lines 140-142: the stop condition
StopCondition(ohlcv, inds, numb, flag, expected) ==
    LET ohlcv_ready == Len(ohlcv) >= numb
        ind_ready == ~flag \/ Len(inds) >= expected
    IN ohlcv_ready /\ ind_ready

\* line 144, i being the 0-based index of the packet just processed
CeilingReached(idx) == idx > CeilingIndex

(***************************************************************************)
(* Envelopes.  Python's None is NoneVal, a string s is Str(s).             *)
(***************************************************************************)
NoneVal == [none |-> TRUE]

Str(x) == [str |-> x]

IsNone(x) == "none" \in DOMAIN x

\* a variant of the success envelope: a partial result reported as a failure
PartialAsFailure(data, metadata) ==
    [status |-> "failed", data |-> [none |-> TRUE], metadata |-> metadata,
     error |-> [str |-> "partial result"]]

_success_response(data, metadata) ==
    [status |-> STATUS_SUCCESS, data |-> data, metadata |-> metadata,
     error |-> NoneVal]

_error_response(error, metadata) ==
    [status |-> STATUS_FAILED, data |-> NoneVal, metadata |-> metadata,
     error |-> Str(error)]

NoResult == [pending |-> TRUE]

(***************************************************************************)
(* Collaborators: symbol validation and indicator metadata.                *)
(***************************************************************************)
format_symbol(exchange, symbol) == exchange \o ":" \o symbol

HttpOutcomes == {"ok", "404", "error"}

\* the for loop of validate_symbols from attempt (0-based) on; http[n] is the
\* outcome of the n-th requests.get
RECURSIVE ValidateFrom(_, _, _, _, _)
ValidateFrom(exchange, symbol, retries, http, attempt) ==
    IF attempt >= retries THEN [ok |-> TRUE, val |-> FALSE, exc |-> "", gets |-> attempt]
    ELSE IF http[attempt + 1] = "ok"
         THEN [ok |-> TRUE, val |-> TRUE, exc |-> "", gets |-> attempt + 1]
    ELSE IF http[attempt + 1] = "404"
         THEN [ok |-> FALSE, val |-> FALSE, gets |-> attempt + 1,
               exc |-> "Invalid exchange:symbol '" \o exchange \o ":" \o symbol \o "'"]
    ELSE IF attempt >= retries - 1
         THEN [ok |-> FALSE, val |-> FALSE, gets |-> attempt + 1,
               exc |-> "Invalid exchange:symbol '" \o exchange \o ":" \o symbol
                       \o "' after " \o ToString(retries) \o " attempts"]
    ELSE ValidateFrom(exchange, symbol, retries, http, attempt + 1)

\* a variant of validate_symbols that accepts everything
AlwaysValid(exchange, symbol, retries, http) ==
    [ok |-> TRUE, val |-> TRUE, exc |-> "", gets |-> 0]

validate_symbols(exchange, symbol, retries, http) ==
    IF exchange = "" \/ symbol = ""
    THEN [ok |-> FALSE, val |-> FALSE, gets |-> 0,
          exc |-> "exchange and symbol cannot be empty"]
    ELSE ValidateFrom(exchange, symbol, retries, http, 0)

\* what the pine-facade lookup of one indicator can give
MetaOutcomes == {"ok", "http_error", "no_metainfo", "empty_inputs"}

MetaInfo(outcome) ==
    IF outcome = "empty_inputs" THEN [inputs |-> <<>>]
    ELSE [pine |-> [version |-> "5.0"],
          inputs |-> <<[id |-> "text", defval |-> "src", type |-> "text"],
                       [id |-> "in_0", defval |-> 14, type |-> "integer"],
                       [id |-> "pineFeatures", defval |-> "{}", type |-> "text"]>>]

prepare_indicator_metadata(script_id, metainfo, chart_session) ==
    LET pine_version == IF "pine" \in DOMAIN metainfo THEN metainfo.pine.version
                        ELSE "1.0"
        inputs == IF "inputs" \in DOMAIN metainfo THEN metainfo.inputs ELSE <<>>
    IN IF "inputs" \in DOMAIN metainfo /\ metainfo.inputs = <<>>
       THEN Raise("IndexError")
       ELSE LET first_input == IF inputs = <<>> THEN "" ELSE inputs[1].defval
                base == <<[k |-> "text", v |-> first_input],
                          [k |-> "pineId", v |-> script_id],
                          [k |-> "pineVersion", v |-> pine_version],
                          [k |-> "pineFeatures",
                           v |-> [v |-> "{\"indicator\":1,\"plot\":1,\"ta\":1}",
                                  f |-> TRUE, t |-> "text"]],
                          [k |-> "__profile",
                           v |-> [v |-> FALSE, f |-> TRUE, t |-> "bool"]]>>
                in_x == [n \in 1..Len(inputs) |->
                            [k |-> inputs[n].id,
                             v |-> [v |-> inputs[n].defval, f |-> TRUE,
                                    t |-> inputs[n].type]]]
                picked == SelectSeq(in_x, LAMBDA e : e.k \in {"in_0", "in_1", "in_2"})
            IN Ret([m |-> "create_study",
                    p |-> <<chart_session, "st9", "st1", "sds_1",
                            "Script@tv-scripting-101!", DictUpdate(base, picked)>>])

fetch_indicator_metadata(script_id, script_version, chart_session, outcome) ==
    IF outcome = "http_error" THEN Ret(EmptyDict)
    ELSE IF outcome = "no_metainfo" THEN Ret(EmptyDict)
    ELSE prepare_indicator_metadata(script_id, MetaInfo(outcome), chart_session)

(***************************************************************************)
(* StreamHandler: sessions, the socket, the handshake.                     *)
(***************************************************************************)
\* the draws of secrets.choice: 12 lowercase letters
generate_session(prefix, random_part) == prefix \o random_part

\* what ws.send was called with: a framed call, or a raw text sent back
Call(func, args) == [m |-> func, p |-> args]

Echo(raw) == [raw |-> raw]

IsEcho(e) == "raw" \in DOMAIN e

\* a variant of the handshake that sets the locale before the token
LocaleBeforeToken(qs, cs, jwt_token) ==
    <<Call("set_locale", <<"en", "US">>),
      Call("set_auth_token", <<jwt_token>>),
      Call("chart_create_session", <<cs, "">>),
      Call("quote_create_session", <<qs>>),
      Call("quote_set_fields", <<qs>> \o _QUOTE_FIELDS),
      Call("quote_hibernate_all", <<qs>>)>>

_initialize_sessions(quote_session, chart_session, jwt_token) ==
    <<Call("set_auth_token", <<jwt_token>>),
      Call("set_locale", <<"en", "US">>),
      Call("chart_create_session", <<chart_session, "">>),
      Call("quote_create_session", <<quote_session>>),
      Call("quote_set_fields", <<quote_session>> \o _QUOTE_FIELDS),
      Call("quote_hibernate_all", <<quote_session>>)>>

\* a variant of the sends that connects again when the socket is closed
ReconnectingSendAll(sent, ws, calls, failAt) ==
    IF calls = <<>> THEN [sent |-> sent, ws |-> ws, raised |-> FALSE]
    ELSE IF failAt \in 1..Len(calls)
         THEN [sent |-> sent \o SubSeq(calls, 1, failAt), ws |-> "lost",
               raised |-> TRUE]
    ELSE [sent |-> sent \o calls, ws |-> "open", raised |-> FALSE]

\* send_message for each call of calls in turn, on a socket in state ws.
\* failAt = n > 0: the n-th ws.send raises an exception that send_message
\* does not catch, and the connection is lost.  A ConnectionError or
\* TimeoutError is caught by send_message and changes nothing here.
\* On a socket that is lost or closed the first ws.send raises.
SendAll(sent, ws, calls, failAt) ==
    IF calls = <<>> THEN [sent |-> sent, ws |-> ws, raised |-> FALSE]
    ELSE IF ws # "open"
         THEN [sent |-> Append(sent, calls[1]), ws |-> ws, raised |-> TRUE]
    ELSE IF failAt \in 1..Len(calls)
         THEN [sent |-> sent \o SubSeq(calls, 1, failAt), ws |-> "lost",
               raised |-> TRUE]
    ELSE [sent |-> sent \o calls, ws |-> ws, raised |-> FALSE]

(***************************************************************************)
(* Streamer: registration of the symbol and of the indicators.             *)
(***************************************************************************)
\* a variant of line 276 without the table
PassThrough(timeframe) == timeframe

MappedTimeframe(timeframe) ==
    IF timeframe \in DOMAIN _TIMEFRAME_MAP THEN _TIMEFRAME_MAP[timeframe] ELSE "1"

\* json.dumps({"adjustment": "splits", "symbol": exchange_symbol})
ResolveSymbol(exchange_symbol) ==
    "{\"adjustment\": \"splits\", \"symbol\": \"" \o exchange_symbol \o "\"}"

\* a variant of _add_symbol_to_sessions that sends nothing for a timeframe
\* the table does not hold
NothingForUnknownTimeframe(qs, cs, exchange_symbol, timeframe, numb_candles) ==
    IF timeframe \in DOMAIN _TIMEFRAME_MAP
    THEN <<Call("quote_add_symbols", <<qs, "=" \o ResolveSymbol(exchange_symbol)>>),
           Call("resolve_symbol", <<cs, "sds_sym_1",
                                    "=" \o ResolveSymbol(exchange_symbol)>>),
           Call("create_series", <<cs, "sds_1", "s1", "sds_sym_1",
                                   MappedTimeframe(timeframe), numb_candles, "">>),
           Call("quote_fast_symbols", <<qs, exchange_symbol>>)>>
    ELSE <<>>

_add_symbol_to_sessions(quote_session, chart_session, exchange_symbol, timeframe, numb_candles) ==
    LET mapped_tf == MappedTimeframe(timeframe)
        resolve_symbol == ResolveSymbol(exchange_symbol)
    IN <<Call("quote_add_symbols", <<quote_session, "=" \o resolve_symbol>>),
         Call("resolve_symbol", <<chart_session, "sds_sym_1", "=" \o resolve_symbol>>),
         Call("create_series", <<chart_session, "sds_1", "s1", "sds_sym_1",
                                 mapped_tf, numb_candles, "">>),
         Call("quote_fast_symbols", <<quote_session, exchange_symbol>>)>>

\* a variant of line 302 that gives every indicator the first study id
FirstStudyId(idx) == "st" \o ToString(StudyBase)

StudyId(idx) == "st" \o ToString(StudyBase + idx)

\* lines 302-310 for the indicator at 0-based position idx: the map entry,
\* then the two sends, a failure of which line 309 catches
StudyAdded(st, study_id, script_id, out) ==
    [st EXCEPT !.sent = out.sent, !.ws = out.ws,
               !.map = (study_id :> script_id) @@ st.map]

\* a variant of lines 307-308 that sends quote_hibernate_all first
HibernateFirst(p, idx, script_id, failAt, qs, st) ==
    StudyAdded(st, StudyId(idx), script_id,
               SendAll(st.sent, st.ws,
                       <<Call("quote_hibernate_all", <<qs>>),
                         Call("create_study", [p EXCEPT ![2] = StudyId(idx)])>>,
                       failAt))

AddStudy(p, idx, script_id, failAt, qs, st) ==
    StudyAdded(st, StudyId(idx), script_id,
               SendAll(st.sent, st.ws,
                       <<Call("create_study", [p EXCEPT ![2] = StudyId(idx)]),
                         Call("quote_hibernate_all", <<qs>>)>>,
                       failAt))

\* _add_indicators from the indicator at 0-based position idx on.
\* st = [sent, ws, map, raised, exc]; metas[n] is the outcome of the n-th
\* metadata lookup; failAt = 2 * idx + n: the n-th ws.send made for the
\* indicator at position idx raises
RECURSIVE AddIndicatorsFrom(_, _, _, _, _, _, _)
RECURSIVE AddIndicator(_, _, _, _, _, _, _, _)
AddIndicator(ind_study, indicators, idx, metas, failAt, qs, cs, st) ==
    IF ~ind_study.ok THEN [st EXCEPT !.raised = TRUE, !.exc = ind_study.exc]
    ELSE IF "p" \notin DOMAIN ind_study.val
    THEN AddIndicatorsFrom(indicators, idx + 1, metas, failAt, qs, cs, st)
    ELSE AddIndicatorsFrom(indicators, idx + 1, metas, failAt, qs, cs,
                           AddStudy(ind_study.val.p, idx, indicators[idx + 1][1],
                                    failAt - 2 * idx, qs, st))

AddIndicatorsFrom(indicators, idx, metas, failAt, qs, cs, st) ==
    IF idx >= Len(indicators) THEN st
    ELSE AddIndicator(fetch_indicator_metadata(indicators[idx + 1][1],
                                               indicators[idx + 1][2], cs,
                                               metas[idx + 1]),
                      indicators, idx, metas, failAt, qs, cs, st)

_add_indicators(indicators, metas, failAt, qs, cs, st) ==
    AddIndicatorsFrom(indicators, 0, metas, failAt, qs, cs, st)

(***************************************************************************)
(* Inputs.                                                                 *)
(***************************************************************************)
MaxCandles == 2

MaxEcho == 1

MaxYield == 2

RSI == <<"STD;RSI", "37.0">>

MACD == <<"STD;MACD", "12.0">>

IndicatorLists == {<<>>, <<RSI>>, <<RSI, MACD>>}

EXPORT_TYPES == {"json", "csv"}

\* Streamer(export_result, export_type, websocket_jwt_token)
StreamerArgs ==
    {[export_result |-> FALSE, export_type |-> "json",
      jwt |-> "unauthorized_user_token"],
     [export_result |-> TRUE, export_type |-> "csv", jwt |-> "test_token"],
     [export_result |-> TRUE, export_type |-> "xml", jwt |-> "test_token"]}

\* get_candles(exchange, symbol, timeframe, numb_candles, indicators)
CandleRequests ==
    {[exchange |-> "BINANCE", symbol |-> "BTCUSDT", timeframe |-> "1h",
      numb_candles |-> n, indicators |-> <<>>] : n \in 0..MaxCandles}
    \cup {[exchange |-> "BINANCE", symbol |-> "BTCUSDT", timeframe |-> "1h",
           numb_candles |-> 1, indicators |-> inds] : inds \in IndicatorLists}
    \cup {[exchange |-> "BINANCE", symbol |-> "BTCUSDT", timeframe |-> "7h",
           numb_candles |-> 0, indicators |-> <<>>],
          [exchange |-> "", symbol |-> "XXX", timeframe |-> "1m",
           numb_candles |-> 1, indicators |-> <<RSI>>]}

Hdr(n) == HeaderMark \o Digits(n) \o HeaderMark

HeartbeatMsgs ==
    {Hdr(4) \o <<"~", "h", "~", "1">>,
     Hdr(5) \o <<"~", "h", "~", "4", "2", "\n">>}

\* raw messages that hold data frames, well formed or not
DataMsgs ==
    {Hdr(90) \o <<name>> : name \in DOMAIN PacketTable}
    \cup {Hdr(90) \o <<"{TS_A}">> \o Hdr(200) \o <<"{DU_9}">>,
          Hdr(90) \o <<"{TS_B}">> \o Hdr(90) \o <<"{TS_A}">>,
          Hdr(90) \o <<"{QSD}">> \o Hdr(3) \o <<"a", "b", "c">> \o Hdr(90) \o <<"{QSD}">>,
          Hdr(4) \o <<"~", "h", "~", "1">> \o Hdr(90) \o <<"{TS_A}">>,
          Hdr(90) \o <<"{TS_B}", "{TS_A}">>,
          Hdr(3) \o <<"[", "1", "]">>,
          Hdr(2) \o <<"{", "}">>,
          <<"{TS_B}">>,
          <<"~", "h", "~", "1">>,
          <<>>}

\* what ws.recv can raise: WebSocketConnectionClosedException; TimeoutError;
\* another OSError (ConnectionError among them); any other exception
RecvErrors == {"closed", "timeout", "oserror", "other"}

(***************************************************************************)
(* State.                                                                  *)
(***************************************************************************)
VARIABLES
    client,                 \* "none", "Streamer", "RealTimeData", "failed"
    export_result,          \* Streamer.export_result
    quote_session,          \* StreamHandler.quote_session
    chart_session,          \* StreamHandler.chart_session
    ws,                     \* the socket: "none", "open", "lost", "closed"
    close_calls,            \* number of calls of ws.close
    init_sent,              \* what the constructor passed to ws.send, in order
    call_sent,              \* what the current (or last) operation passed to ws.send
    study_id_to_name_map,   \* Streamer.study_id_to_name_map
    op,                     \* operation in progress: "idle", "candles", "price", "ohlcv"
    gen,                    \* where the operation is: "none", "called", "created",
                            \* "recv", "yield", "done"
    parts,                  \* fragments of the current raw message not yet decoded
    req,                    \* arguments of the operation in progress or last run
    ohlcv_data,             \* get_candles local
    indicator_data,         \* get_candles local
    consumed,               \* packets taken from the generator by the current operation
    result,                 \* envelope returned by the last get_candles
    outcome,                \* how the last receive loop ended
    yielded,                \* values the generator operations yielded to their caller
    exports,                \* categories written by _export in the last get_candles
    raised,                 \* exception the last operation raised to its caller ("" if none)
    rx_hb,                  \* heartbeat messages received by the current operation
    hb_decoded,             \* a fragment of a heartbeat message went to json.loads
    rx_raws,                \* raw messages with a packet in them that get_ohlcv's generator received
    last_ts,                \* raw entries of the last timescale_update processed,
                            \* and of the last one that carried an entry
    f_pc, f_method, f_params, f_frame, f_parts,  \* the framing round trip
    v_pc, v_args, v_out,    \* a call of validate_symbols: arguments, outcome
    m_pc,                   \* Minds.get_minds: "off", "input", "loop", "done"
    m_args,                 \* its arguments, and the export_result of the scraper
    parsed_data,            \* its local parsed_data
    next_cursor,            \* its local next_cursor
    pages,                  \* its local pages
    symbol_info,            \* its local symbol_info
    m_gets,                 \* the cursor of each requests.get so far (<<>>: no "c")
    m_fetched,              \* the items of the pages fetched so far
    m_exported,             \* what _export was given
    m_result,               \* what get_minds returned
    i_pc,                   \* Ideas.get_data: "off", "input", "collect", "shutdown", "done"
    i_args,                 \* its arguments, and what the server answers for each page
    i_queue,                \* pages submitted to the pool that no worker has taken yet
    i_running,              \* pages a worker is fetching
    i_left,                 \* futures as_completed has not yielded yet
    articles,               \* its local articles
    i_exported,             \* what _export was given
    i_result,               \* what get_data returns
    l_turn,                 \* parity of the raw messages the receive loop has taken
    l_echo,                 \* the last heartbeat the receive loop sent back
    s_pc,                   \* a sequence of send_message calls: where it stands
    s_errs,                 \* what each ws.send of the sequence does
    s_sent,                 \* what ws.send was called with, in order
    s_dropped               \* the calls whose ws.send raised an error that was swallowed

vars == <<client, export_result, quote_session, chart_session, ws, close_calls,
          init_sent, call_sent, study_id_to_name_map, op, gen, parts, req,
          ohlcv_data, indicator_data, consumed, result, outcome, yielded,
          exports, raised, rx_hb, hb_decoded, rx_raws, last_ts, f_pc, f_method, f_params, f_frame, f_parts,
          v_pc, v_args, v_out, m_pc, m_args, parsed_data, next_cursor, pages,
          symbol_info, m_gets, m_fetched, m_exported, m_result,
          i_pc, i_args, i_queue, i_running, i_left, articles, i_exported, i_result,
          l_turn, l_echo, s_pc, s_errs, s_sent, s_dropped>>

frameVars == <<f_pc, f_method, f_params, f_frame, f_parts>>

validateVars == <<v_pc, v_args, v_out>>

mindsVars == <<m_pc, m_args, parsed_data, next_cursor, pages, symbol_info, m_gets,
               m_fetched, m_exported, m_result>>

ideasVars == <<i_pc, i_args, i_queue, i_running, i_left, articles, i_exported,
               i_result>>

liveVars == <<l_turn, l_echo>>

sendVars == <<s_pc, s_errs, s_sent, s_dropped>>

\* the variables of the checks of single functions
pureVars == <<frameVars, validateVars, mindsVars, ideasVars, liveVars, sendVars>>

objectVars == <<client, export_result, quote_session, chart_session, init_sent>>

protocolVars == <<client, export_result, quote_session, chart_session, ws,
                  close_calls, init_sent, call_sent, study_id_to_name_map, op, gen,
                  parts, req, ohlcv_data, indicator_data, consumed, result, outcome,
                  yielded, exports, raised, rx_hb, hb_decoded, rx_raws, last_ts>>

NoReq == [none |-> TRUE]

NoSnapshot == [seen |-> FALSE, entries |-> <<>>, full |-> <<>>]

EmptyMap == [key \in {} |-> ""]

ProtocolInit ==
    /\ client = "none"
    /\ export_result = FALSE
    /\ quote_session = ""
    /\ chart_session = ""
    /\ ws = "none"
    /\ close_calls = 0
    /\ init_sent = <<>>
    /\ call_sent = <<>>
    /\ study_id_to_name_map = EmptyMap
    /\ op = "idle"
    /\ gen = "none"
    /\ parts = <<>>
    /\ req = NoReq
    /\ ohlcv_data = <<>>
    /\ indicator_data = EmptyDict
    /\ consumed = 0
    /\ result = NoResult
    /\ outcome = "none"
    /\ yielded = <<>>
    /\ exports = <<>>
    /\ raised = ""
    /\ rx_hb = <<>>
    /\ hb_decoded = FALSE
    /\ rx_raws = <<>>
    /\ last_ts = NoSnapshot

FrameOff ==
    /\ f_pc = "off"
    /\ f_method = <<>>
    /\ f_params = <<>>
    /\ f_frame = <<>>
    /\ f_parts = <<>>

ValidateOff ==
    /\ v_pc = "off"
    /\ v_args = <<>>
    /\ v_out = <<>>

MindsOff ==
    /\ m_pc = "off"
    /\ m_args = <<>>
    /\ parsed_data = <<>>
    /\ next_cursor = <<>>
    /\ pages = 0
    /\ symbol_info = <<>>
    /\ m_gets = <<>>
    /\ m_fetched = <<>>
    /\ m_exported = <<>>
    /\ m_result = <<>>

IdeasOff ==
    /\ i_pc = "off"
    /\ i_args = <<>>
    /\ i_queue = <<>>
    /\ i_running = {}
    /\ i_left = {}
    /\ articles = <<>>
    /\ i_exported = <<>>
    /\ i_result = <<>>

LiveOff ==
    /\ l_turn = 0
    /\ l_echo = <<>>

SendOff ==
    /\ s_pc = "off"
    /\ s_errs = <<>>
    /\ s_sent = <<>>
    /\ s_dropped = <<>>

Init ==
    /\ ProtocolInit
    /\ FrameOff
    /\ ValidateOff
    /\ MindsOff
    /\ IdeasOff
    /\ LiveOff
    /\ SendOff

(***************************************************************************)
(* Construction.                                                           *)
(***************************************************************************)
\* a variant of _initialize that draws the sessions again after the setup
\* calls
SessionsDrawnAgain(cls, qs, cs, out) ==
    /\ client' = IF out.raised THEN "failed" ELSE cls
    /\ quote_session' = generate_session("qs_", "mmmmmmmmmmmm")
    /\ chart_session' = generate_session("cs_", "nnnnnnnnnnnn")
    /\ ws' = out.ws
    /\ init_sent' = out.sent

\* StreamHandler.__init__ after create_connection: out is what the six setup
\* calls came to
Initialized(cls, qs, cs, out) ==
    /\ client' = IF out.raised THEN "failed" ELSE cls
    /\ quote_session' = qs
    /\ chart_session' = cs
    /\ ws' = out.ws
    /\ init_sent' = out.sent

\* StreamHandler.__init__: create_connection, the two sessions, the six
\* setup calls.  connected = FALSE: create_connection raises.
StreamHandlerInit(cls, jwt_token, qr, cr, connected, failAt) ==
    IF ~connected
    THEN /\ client' = "failed"
         /\ UNCHANGED <<quote_session, chart_session, ws, init_sent>>
    ELSE Initialized(cls, generate_session("qs_", qr), generate_session("cs_", cr),
                     SendAll(<<>>, "open",
                             _initialize_sessions(generate_session("qs_", qr),
                                                  generate_session("cs_", cr),
                                                  jwt_token),
                             failAt))

\* Streamer.__init__
NewStreamer(args, qr, cr, connected, failAt) ==
    /\ client = "none"
    /\ IF args.export_type \notin EXPORT_TYPES
       THEN /\ client' = "failed"
            /\ UNCHANGED <<export_result, quote_session, chart_session, ws, init_sent>>
       ELSE /\ export_result' = args.export_result
            /\ StreamHandlerInit("Streamer", args.jwt, qr, cr, connected, failAt)
    /\ UNCHANGED <<close_calls, call_sent, study_id_to_name_map, op, gen, parts,
                   req, ohlcv_data, indicator_data, consumed, result, outcome,
                   yielded, exports, raised, rx_hb, hb_decoded, rx_raws, last_ts>>
    /\ UNCHANGED pureVars

\* RealTimeData.__init__
NewRealTimeData(qr, cr, connected, failAt) ==
    /\ client = "none"
    /\ StreamHandlerInit("RealTimeData", "unauthorized_user_token", qr, cr,
                         connected, failAt)
    /\ UNCHANGED <<export_result, close_calls, call_sent, study_id_to_name_map, op,
                   gen, parts, req, ohlcv_data, indicator_data, consumed, result,
                   outcome, yielded, exports, raised, rx_hb, hb_decoded, rx_raws, last_ts>>
    /\ UNCHANGED pureVars

(***************************************************************************)
(* Streamer.get_candles.                                                   *)
(***************************************************************************)
\* the canonical outcomes of up to retries requests.get: errors, then the
\* answer that ends the call
HttpScripts(retries) ==
    {h \in [1..retries -> HttpOutcomes] :
        \A n \in 1..retries : h[n] # "error" =>
            \A q \in (n + 1)..retries : h[q] = "ok"}

ErrorMetadata(r) == [exchange |-> r.exchange, symbol |-> r.symbol]

SuccessMetadata(r) ==
    [exchange |-> r.exchange, symbol |-> r.symbol, timeframe |-> r.timeframe,
     numb_candles |-> r.numb_candles]

\* a variant of line 166 that catches ValueError only
CatchValueErrorOnly(exc, r) ==
    IF exc = "exchange and symbol cannot be empty"
    THEN [result |-> _error_response(exc, ErrorMetadata(r)), raised |-> ""]
    ELSE [result |-> NoResult, raised |-> exc]

\* line 166: except Exception
CatchAll(exc, r) == [result |-> _error_response(exc, ErrorMetadata(r)), raised |-> ""]

IndFlag(r) == r.indicators # <<>>

ExpectedIndCount(r) == IF IndFlag(r) THEN Len(r.indicators) ELSE 0

\* lines 153-156
ExportsOf(r, flag) ==
    IF ~flag THEN <<>>
    ELSE IF IndFlag(r) THEN <<"ohlcv", "indicators">> ELSE <<"ohlcv">>

\* a call starts: what the last one left behind is reset
CallStarts(r) ==
    /\ req' = r
    /\ ohlcv_data' = <<>>
    /\ indicator_data' = EmptyDict
    /\ consumed' = 0
    /\ result' = NoResult
    /\ outcome' = "none"
    /\ yielded' = <<>>
    /\ exports' = <<>>
    /\ rx_hb' = <<>>
    /\ hb_decoded' = FALSE
    /\ rx_raws' = <<>>
    /\ last_ts' = NoSnapshot
    /\ parts' = <<>>

\* get_candles is called: what the last call left behind is reset
GetCandlesCall(r) ==
    /\ client = "Streamer"
    /\ op = "idle"
    /\ op' = "candles"
    /\ gen' = "called"
    /\ raised' = ""
    /\ call_sent' = <<>>
    /\ CallStarts(r)
    /\ UNCHANGED <<ws, close_calls, study_id_to_name_map>>
    /\ UNCHANGED objectVars
    /\ UNCHANGED pureVars

\* the body of get_candles stops at lines 166-172
Caught(exc) ==
    /\ op' = "idle"
    /\ gen' = "none"
    /\ result' = CatchAll(exc, req).result
    /\ raised' = CatchAll(exc, req).raised

\* lines 108-109
GetCandlesValidate(http) ==
    /\ op = "candles"
    /\ gen = "called"
    /\ IF validate_symbols(req.exchange, req.symbol, DefaultRetries, http).ok
       THEN /\ gen' = "none"
            /\ UNCHANGED <<op, result, raised>>
       ELSE Caught(validate_symbols(req.exchange, req.symbol, DefaultRetries, http).exc)
    /\ UNCHANGED <<ws, close_calls, call_sent, study_id_to_name_map, parts, req,
                   ohlcv_data, indicator_data, consumed, outcome, yielded, exports,
                   rx_hb, hb_decoded, rx_raws, last_ts>>
    /\ UNCHANGED objectVars
    /\ UNCHANGED pureVars

\* lines 113-119 as the start of the registration state st
SymbolAdded(sym, map) ==
    [sent |-> sym.sent, ws |-> sym.ws, map |-> map, raised |-> sym.raised,
     exc |-> IF sym.raised THEN "WebSocketException" ELSE ""]

\* lines 121-122
IndicatorsAdded(st0, r, metas, failAt, qs, cs) ==
    IF ~st0.raised /\ IndFlag(r)
    THEN _add_indicators(r.indicators, metas, failAt, qs, cs, st0)
    ELSE st0

\* a variant of get_candles that closes the socket when the registration
\* raised
ClosedWhenRaised(st) ==
    /\ call_sent' = st.sent
    /\ study_id_to_name_map' = st.map
    /\ IF st.raised THEN ws' = "closed" /\ Caught(st.exc)
       ELSE /\ ws' = st.ws
            /\ op' = "candles"
            /\ gen' = "recv"
            /\ UNCHANGED <<result, raised>>

\* the registration ended in st: the receive loop starts, or line 166 catches
Registered(st) ==
    /\ call_sent' = st.sent
    /\ ws' = st.ws
    /\ study_id_to_name_map' = st.map
    /\ IF st.raised THEN Caught(st.exc)
       ELSE /\ op' = "candles"
            /\ gen' = "recv"
            /\ UNCHANGED <<result, raised>>

\* lines 111-126: registration, up to the start of the receive loop; failAt
\* counts the sends of lines 113-119, then those of _add_indicators
GetCandlesRegister(metas, failAt) ==
    /\ op = "candles"
    /\ gen = "none"
    /\ Registered(
          IndicatorsAdded(
             SymbolAdded(
                SendAll(<<>>, ws,
                        _add_symbol_to_sessions(
                           quote_session, chart_session,
                           format_symbol(req.exchange, req.symbol),
                           req.timeframe, req.numb_candles),
                        failAt),
                study_id_to_name_map),
             req, metas, failAt - 4, quote_session, chart_session))
    /\ UNCHANGED <<close_calls, parts, req, ohlcv_data, indicator_data, consumed,
                   outcome, yielded, exports, rx_hb, hb_decoded, rx_raws, last_ts>>
    /\ UNCHANGED objectVars
    /\ UNCHANGED pureVars

\* the raw entries a timescale_update packet carries for series sds_1
TsEntries(pkt) ==
    IF /\ "p" \in DOMAIN pkt.d
       /\ Len(pkt.d.p) >= 2
       /\ pkt.d.p[2].t = "d"
       /\ HasKey(pkt.d.p[2].d, "sds_1")
       /\ "s" \in DOMAIN Lookup(pkt.d.p[2].d, "sds_1")
    THEN Lookup(pkt.d.p[2].d, "sds_1").s
    ELSE <<>>

Snapshot(pkt, before) ==
    IF IsDict(pkt) /\ PktMethod(pkt) = "timescale_update"
    THEN [seen |-> TRUE, entries |-> TsEntries(pkt),
          full |-> IF TsEntries(pkt) # <<>> THEN TsEntries(pkt) ELSE before.full]
    ELSE before

\* the locals of the loop of lines 128-149 before the first packet
LoopStart ==
    [ohlcv |-> <<>>, inds |-> EmptyDict, consumed |-> 0, last_ts |-> NoSnapshot,
     status |-> "running", exc |-> ""]

\* a variant of lines 131-132 that appends instead of replacing
AppendOhlcv(acc, received_ohlcv) == acc \o received_ohlcv

\* lines 131-132: "if received_ohlcv: ohlcv_data = received_ohlcv"
KeepOhlcv(acc, received_ohlcv) ==
    IF received_ohlcv # <<>> THEN received_ohlcv ELSE acc

\* lines 136-137: "if received_ind: indicator_data.update(received_ind)"
KeepIndicators(acc, received_ind) ==
    IF received_ind # EmptyDict THEN DictUpdate(acc, received_ind) ELSE acc

\* lines 140-149: what the loop does after the packet of 0-based index i
AfterPacket(ohlcv, inds, i, r) ==
    IF StopCondition(ohlcv, inds, r.numb_candles, IndFlag(r), ExpectedIndCount(r))
    THEN "SATISFIED"
    ELSE IF CeilingReached(i) THEN "CEILING" ELSE "running"

\* lines 139-149: the packet of 0-based index loc.consumed has been processed
Judged(ohlcv, inds, pkt, loc, r) ==
    [ohlcv |-> ohlcv, inds |-> inds, consumed |-> loc.consumed + 1,
     last_ts |-> Snapshot(pkt, loc.last_ts),
     status |-> AfterPacket(ohlcv, inds, loc.consumed, r), exc |-> ""]

\* lines 134-137
AfterIndicators(received_ind, ohlcv, pkt, loc, r) ==
    IF ~received_ind.ok
    THEN [loc EXCEPT !.ohlcv = ohlcv, !.consumed = loc.consumed + 1,
                     !.last_ts = Snapshot(pkt, loc.last_ts),
                     !.status = "EXCEPTION", !.exc = received_ind.exc]
    ELSE Judged(ohlcv, KeepIndicators(loc.inds, received_ind.val), pkt, loc, r)

\* lines 130-135
AfterOhlcv(received_ohlcv, pkt, loc, r, map) ==
    IF ~received_ohlcv.ok
    THEN [loc EXCEPT !.consumed = loc.consumed + 1, !.status = "EXCEPTION",
                     !.exc = received_ohlcv.exc]
    ELSE AfterIndicators(_extract_indicator_from_stream(pkt, map),
                         KeepOhlcv(loc.ohlcv, received_ohlcv.val), pkt, loc, r)

\* lines 129-149: one iteration of the loop, on the decoded packet pkt
LoopBody(pkt, loc, r, map) ==
    AfterOhlcv(_extract_ohlcv_from_stream(pkt), pkt, loc, r, map)

\* lines 249-253 driven by the for loop of line 128: the fragments of one raw
\* message are decoded and handed to the loop body until the loop breaks
RECURSIVE ConsumeParts(_, _, _, _)
RECURSIVE ConsumeDecoded(_, _, _, _, _)
ConsumeDecoded(decoded, rest, loc, r, map) ==
    IF ~decoded.ok THEN ConsumeParts(rest, loc, r, map)
    ELSE ConsumeParts(rest, LoopBody(decoded.v, loc, r, map), r, map)

ConsumeParts(ps, loc, r, map) ==
    IF ps = <<>> \/ loc.status # "running" THEN loc
    ELSE ConsumeDecoded(JsonLoads(Head(ps)), Tail(ps), loc, r, map)

\* a variant of the generator without its finally
LeaveSocket(w) == w

\* lines 261-265: the finally of _get_data
CloseSocket(w) == "closed"

Locals == [ohlcv |-> ohlcv_data, inds |-> indicator_data, consumed |-> consumed,
           last_ts |-> last_ts, status |-> "running", exc |-> ""]

\* the loop goes on: the generator is suspended in recv again
LoopContinues(loc) ==
    /\ ohlcv_data' = loc.ohlcv
    /\ indicator_data' = loc.inds
    /\ consumed' = loc.consumed
    /\ last_ts' = loc.last_ts
    /\ UNCHANGED <<close_calls, op, gen, result, outcome, exports, raised>>

\* the loop is over: the generator is finalised (lines 261-265), then lines
\* 151-164 build the envelope, or the except of line 166 does and the locals
\* are gone
LoopEnds(loc, status, exc) ==
    /\ close_calls' = close_calls + 1
    /\ op' = "idle"
    /\ gen' = "done"
    /\ outcome' = status
    /\ IF status = "EXCEPTION"
       THEN /\ result' = CatchAll(exc, req).result
            /\ raised' = CatchAll(exc, req).raised
            /\ exports' = <<>>
            /\ ohlcv_data' = <<>>
            /\ indicator_data' = EmptyDict
            /\ consumed' = 0
            /\ last_ts' = NoSnapshot
       ELSE /\ result' = _success_response([ohlcv |-> loc.ohlcv, indicators |-> loc.inds],
                                           SuccessMetadata(req))
            /\ raised' = ""
            /\ exports' = ExportsOf(req, export_result)
            /\ ohlcv_data' = loc.ohlcv
            /\ indicator_data' = loc.inds
            /\ consumed' = loc.consumed
            /\ last_ts' = loc.last_ts

\* line 235 raises
CandlesRecvError(e) ==
    /\ op = "candles"
    /\ gen = "recv"
    /\ ws # "open" => e = "closed"
    /\ IF e = "other" THEN LoopEnds(Locals, "EXCEPTION", "RuntimeError")
       ELSE LoopEnds(Locals, "SOCKET_ERROR", "")
    /\ ws' = CloseSocket(ws)
    /\ UNCHANGED <<call_sent, study_id_to_name_map, parts, req, yielded, rx_hb,
                   hb_decoded, rx_raws>>
    /\ UNCHANGED objectVars
    /\ UNCHANGED pureVars

\* lines 242-245: a heartbeat is sent back as it came
EchoOf(raw) == IF IsHeartbeat(raw) THEN <<Echo(raw)>> ELSE <<>>

\* a variant of the receive loop without the continue of line 245
DecodeEveryMessage(raw) == SplitParts(raw)

\* lines 242-248: what goes on to json.loads
FragmentsToDecode(raw) == IF IsHeartbeat(raw) THEN <<>> ELSE SplitParts(raw)

\* the packets that the fragments ps decode to, in the order of the fragments
DecodedOne(d) == IF d.ok THEN <<d.v>> ELSE <<>>

RECURSIVE DecodedOf(_)
DecodedOf(ps) ==
    IF ps = <<>> THEN <<>>
    ELSE DecodedOne(JsonLoads(Head(ps))) \o DecodedOf(Tail(ps))

\* raw is no heartbeat and one of its frames is a JSON text
HoldsPacket(raw) == ~IsHeartbeat(raw) /\ DecodedOf(SplitParts(raw)) # <<>>

\* the bookkeeping of a received raw message
Received(raw) ==
    /\ raw \in HeartbeatMsgs => Len(rx_hb) < MaxEcho
    /\ rx_hb' = IF raw \in HeartbeatMsgs THEN Append(rx_hb, raw) ELSE rx_hb
    /\ hb_decoded' = (hb_decoded \/ (raw \in HeartbeatMsgs /\ FragmentsToDecode(raw) # <<>>))
    /\ call_sent' = call_sent \o EchoOf(raw)
    /\ rx_raws' = IF op = "ohlcv" /\ HoldsPacket(raw) THEN Append(rx_raws, raw)
                ELSE rx_raws

\* the for loop of line 128 has taken what a raw message held
LoopReaches(loc) ==
    IF loc.status = "running" THEN LoopContinues(loc) /\ ws' = ws
    ELSE LoopEnds(loc, loc.status, loc.exc) /\ ws' = CloseSocket(ws)

\* line 235 returns raw; echo is what the ws.send of line 244 does if reached:
\* "ok", "closed" (a socket error of lines 255-258), "other"
CandlesRecv(raw, echo) ==
    /\ op = "candles"
    /\ gen = "recv"
    /\ ws = "open"
    /\ EchoOf(raw) = <<>> => echo = "ok"
    /\ Received(raw)
    /\ IF echo # "ok"
       THEN /\ ws' = CloseSocket("lost")
            /\ IF echo = "closed" THEN LoopEnds(Locals, "SOCKET_ERROR", "")
               ELSE LoopEnds(Locals, "EXCEPTION", "RuntimeError")
       ELSE LoopReaches(ConsumeParts(FragmentsToDecode(raw), Locals, req,
                                     study_id_to_name_map))
    /\ UNCHANGED <<study_id_to_name_map, parts, req, yielded>>
    /\ UNCHANGED objectVars
    /\ UNCHANGED pureVars

(***************************************************************************)
(* The generators: Streamer.stream_realtime_price, RealTimeData.get_ohlcv. *)
(***************************************************************************)
\* stream_realtime_price(exchange, symbol); get_ohlcv(exchange, symbol)
StreamRequests ==
    {[exchange |-> "BINANCE", symbol |-> "BTCUSDT"],
     [exchange |-> "", symbol |-> "XXX"]}

\* the raw messages a subscribed stream delivers
StreamMsgs ==
    {Hdr(90) \o <<name>> : name \in {"{QSD}", "{QSD_N}", "{OTHER}", "{TS_A}"}}
    \cup {Hdr(90) \o <<"{QSD}">> \o Hdr(3) \o <<"a", "b", "c">> \o Hdr(90) \o <<"{QSD}">>,
          Hdr(4) \o <<"~", "h", "~", "1">> \o Hdr(90) \o <<"{OTHER}">>,
          Hdr(3) \o <<"[", "1", "]">>,
          <<"~", "h", "~", "1">>}

Val(x) == [val |-> x]

\* v.get(key): None, or the value
Get(v, key) == IF HasKey(v, key) THEN Val(Lookup(v, key)) ELSE NoneVal

\* v.get(key, default)
GetOr(v, key, default) == IF HasKey(v, key) THEN Val(Lookup(v, key)) ELSE Val(default)

\* streamer.py lines 208-221: the dict yielded for a qsd packet
NormalisedPrice(v, exchange, symbol) ==
    [exchange |-> GetOr(v, "exchange", exchange),
     symbol |-> GetOr(v, "short_name", symbol),
     price |-> Get(v, "lp"), volume |-> Get(v, "volume"), change |-> Get(v, "ch"),
     change_percent |-> Get(v, "chp"), high |-> Get(v, "high_price"),
     low |-> Get(v, "low_price"), open |-> Get(v, "open_price"),
     prev_close |-> Get(v, "prev_close_price"), bid |-> Get(v, "bid"),
     ask |-> Get(v, "ask")]

\* a variant of lines 203-205 without the test of the method
AnyPacketWithPayload(pkt) ==
    /\ "p" \in DOMAIN pkt.d
    /\ Len(pkt.d.p) > 1
    /\ pkt.d.p[2].t = "d"

\* streamer.py lines 203-207: does the packet lead to a yield
IsPriceUpdate(pkt) ==
    /\ PktMethod(pkt) = "qsd"
    /\ "p" \in DOMAIN pkt.d
    /\ Len(pkt.d.p) > 1
    /\ pkt.d.p[2].t = "d"

NoYield == [found |-> FALSE, val |-> NoneVal, rest |-> <<>>, exc |-> ""]

Yield(val, rest) == [found |-> TRUE, val |-> val, rest |-> rest, exc |-> ""]

\* streamer.py lines 205-221, for a packet that passed the tests of 203-207
PriceUpdate(p1, r) ==
    NormalisedPrice(IF HasKey(p1, "v") THEN Lookup(p1, "v") ELSE EmptyDict,
                    r.exchange, r.symbol)

\* the generator runs on over the fragments ps until its next yield: price.py
\* lines 137-141 yield every decoded packet, streamer.py lines 202-221 the
\* normalised qsd packets only
RECURSIVE NextYield(_, _, _)
RECURSIVE YieldOf(_, _, _, _)
YieldOf(decoded, rest, kind, r) ==
    IF ~decoded.ok THEN NextYield(rest, kind, r)
    ELSE IF kind = "ohlcv" THEN Yield(decoded.v, rest)
    ELSE IF ~IsDict(decoded.v) THEN [NoYield EXCEPT !.exc = "AttributeError"]
    ELSE IF IsPriceUpdate(decoded.v) THEN Yield(PriceUpdate(decoded.v.d.p[2].d, r), rest)
    ELSE NextYield(rest, kind, r)

NextYield(ps, kind, r) ==
    IF ps = <<>> THEN NoYield
    ELSE YieldOf(JsonLoads(Head(ps)), Tail(ps), kind, r)

\* stream_realtime_price is called: a generator function, nothing runs yet
StreamRealtimePrice(r) ==
    /\ client = "Streamer"
    /\ op = "idle"
    /\ op' = "price"
    /\ gen' = "created"
    /\ raised' = ""
    /\ call_sent' = <<>>
    /\ CallStarts(r)
    /\ UNCHANGED <<ws, close_calls, study_id_to_name_map>>
    /\ UNCHANGED objectVars
    /\ UNCHANGED pureVars

\* the sends of a subscription came to out: the operation goes on in the
\* states started, or the failure reaches the caller
Subscribed(out, started, failed) ==
    /\ call_sent' = out.sent
    /\ ws' = out.ws
    /\ raised' = IF out.raised THEN "WebSocketException" ELSE ""
    /\ op' = IF out.raised THEN "idle" ELSE started[1]
    /\ gen' = IF out.raised THEN failed ELSE started[2]

\* streamer.py lines 197-200
PriceSubscription(qs, exchange_symbol) ==
    <<Call("quote_add_symbols", <<qs, "=" \o ResolveSymbol(exchange_symbol)>>),
      Call("quote_fast_symbols", <<qs, exchange_symbol>>)>>

\* streamer.py lines 193-200: the first next() runs up to the receive loop
PriceFirstNext(http, failAt) ==
    /\ op = "price"
    /\ gen = "created"
    /\ IF ~validate_symbols(req.exchange, req.symbol, DefaultRetries, http).ok
       THEN /\ raised' = validate_symbols(req.exchange, req.symbol,
                                          DefaultRetries, http).exc
            /\ op' = "idle"
            /\ gen' = "done"
            /\ UNCHANGED <<ws, call_sent>>
       ELSE Subscribed(SendAll(<<>>, ws,
                               PriceSubscription(quote_session,
                                                 format_symbol(req.exchange,
                                                               req.symbol)),
                               failAt),
                       <<"price", "recv">>, "done")
    /\ UNCHANGED <<close_calls, study_id_to_name_map, parts, req, ohlcv_data,
                   indicator_data, consumed, result, outcome, yielded, exports,
                   rx_hb, hb_decoded, rx_raws, last_ts>>
    /\ UNCHANGED objectVars
    /\ UNCHANGED pureVars

\* price.py lines 75-96
RealTimeAddSymbol(qs, cs, exchange_symbol) ==
    <<Call("quote_add_symbols", <<qs, "=" \o ResolveSymbol(exchange_symbol)>>),
      Call("resolve_symbol", <<cs, "sds_sym_1", "=" \o ResolveSymbol(exchange_symbol)>>),
      Call("create_series", <<cs, "sds_1", "s1", "sds_sym_1", "1", 10, "">>),
      Call("quote_fast_symbols", <<qs, exchange_symbol>>),
      Call("create_study", <<cs, "st1", "st1", "sds_1", "Volume@tv-basicstudies-246",
                             [length |-> 20, col_prev_close |-> "false"]>>),
      Call("quote_hibernate_all", <<qs>>)>>

\* RealTimeData.get_ohlcv: the six sends, then the generator is returned
GetOhlcv(r, failAt) ==
    /\ client = "RealTimeData"
    /\ op = "idle"
    /\ Subscribed(SendAll(<<>>, ws,
                          RealTimeAddSymbol(quote_session, chart_session,
                                            format_symbol(r.exchange, r.symbol)),
                          failAt),
                  <<"ohlcv", "created">>, "none")
    /\ CallStarts(r)
    /\ UNCHANGED <<close_calls, study_id_to_name_map>>
    /\ UNCHANGED objectVars
    /\ UNCHANGED pureVars

\* the first next() on the generator get_ohlcv returned: _get_data reaches recv
OhlcvFirstNext ==
    /\ op = "ohlcv"
    /\ gen = "created"
    /\ gen' = "recv"
    /\ UNCHANGED <<ws, close_calls, call_sent, study_id_to_name_map, op, parts, req,
                   ohlcv_data, indicator_data, consumed, result, outcome, yielded,
                   exports, raised, rx_hb, hb_decoded, rx_raws, last_ts>>
    /\ UNCHANGED objectVars
    /\ UNCHANGED pureVars

\* the generator is over: the finally of _get_data has closed the socket;
\* exc is what next() raises besides StopIteration
GenEnds(w, status, exc) ==
    /\ ws' = CloseSocket(w)
    /\ close_calls' = close_calls + 1
    /\ op' = "idle"
    /\ gen' = "done"
    /\ parts' = <<>>
    /\ outcome' = status
    /\ raised' = exc

\* the generator has run on to y: its next yield, the next recv, or its end
GenReaches(y) ==
    IF y.exc # "" THEN GenEnds(ws, "EXCEPTION", y.exc) /\ yielded' = yielded
    ELSE /\ yielded' = IF y.found THEN Append(yielded, y.val) ELSE yielded
         /\ parts' = y.rest
         /\ gen' = IF y.found THEN "yield" ELSE "recv"
         /\ UNCHANGED <<ws, close_calls, op, outcome, raised>>

\* a variant of the generator that gives up a raw message after its first
\* packet
FirstPacketOnly(ps) == GenReaches([NextYield(ps, op, req) EXCEPT !.rest = <<>>])

\* the generator goes on over the fragments ps
GenRuns(ps) == GenReaches(NextYield(ps, op, req))

\* ws.recv returns raw inside next()
GenRecv(raw, echo) ==
    /\ op \in {"price", "ohlcv"}
    /\ gen = "recv"
    /\ ws = "open"
    /\ Len(yielded) < MaxYield
    /\ EchoOf(raw) = <<>> => echo = "ok"
    /\ Received(raw)
    /\ IF echo # "ok"
       THEN /\ IF echo = "closed" THEN GenEnds("lost", "SOCKET_ERROR", "")
               ELSE GenEnds("lost", "EXCEPTION", "RuntimeError")
            /\ yielded' = yielded
       ELSE GenRuns(FragmentsToDecode(raw))
    /\ UNCHANGED <<study_id_to_name_map, req, ohlcv_data, indicator_data, consumed,
                   result, exports, last_ts>>
    /\ UNCHANGED objectVars
    /\ UNCHANGED pureVars

\* price.py lines 146-149: socket.timeout, which is TimeoutError, is skipped
TimeoutContinues == op = "ohlcv"

\* ws.recv raises inside next()
GenRecvError(e) ==
    /\ op \in {"price", "ohlcv"}
    /\ gen = "recv"
    /\ ws # "open" => e = "closed"
    /\ IF e = "timeout" /\ TimeoutContinues
       THEN UNCHANGED <<ws, close_calls, op, gen, parts, outcome, raised>>
       ELSE IF e = "other" THEN GenEnds(ws, "EXCEPTION", "RuntimeError")
       ELSE GenEnds(ws, "SOCKET_ERROR", "")
    /\ UNCHANGED <<call_sent, study_id_to_name_map, req, ohlcv_data, indicator_data,
                   consumed, result, yielded, exports, rx_hb, hb_decoded, rx_raws, last_ts>>
    /\ UNCHANGED objectVars
    /\ UNCHANGED pureVars

\* the caller asks the suspended generator for the next value
GenResume ==
    /\ op \in {"price", "ohlcv"}
    /\ gen = "yield"
    /\ GenRuns(parts)
    /\ UNCHANGED <<call_sent, study_id_to_name_map, req, ohlcv_data, indicator_data,
                   consumed, result, exports, rx_hb, hb_decoded, rx_raws, last_ts>>
    /\ UNCHANGED objectVars
    /\ UNCHANGED pureVars

\* the caller closes or drops the generator: one suspended at a yield runs
\* its finally, one that never started runs nothing
GenClose ==
    /\ op \in {"price", "ohlcv"}
    /\ gen \in {"created", "yield"}
    /\ IF gen = "yield" THEN GenEnds(ws, "CLOSED", "")
       ELSE /\ op' = "idle"
            /\ gen' = "done"
            /\ outcome' = "CLOSED"
            /\ UNCHANGED <<ws, close_calls, parts, raised>>
    /\ UNCHANGED <<call_sent, study_id_to_name_map, req, ohlcv_data, indicator_data,
                   consumed, result, yielded, exports, rx_hb, hb_decoded, rx_raws, last_ts>>
    /\ UNCHANGED objectVars
    /\ UNCHANGED pureVars

(***************************************************************************)
(* The client.                                                             *)
(***************************************************************************)
\* what the two random.choice runs of generate_session draw
RandomDraws == {<<"abcdefghijkl", "zzzzzzzzzzzz">>}

Construct ==
    \E d \in RandomDraws, connected \in BOOLEAN, failAt \in 0..6 :
        \/ \E a \in StreamerArgs : NewStreamer(a, d[1], d[2], connected, failAt)
        \/ NewRealTimeData(d[1], d[2], connected, failAt)

GetCandles ==
    \/ \E r \in CandleRequests : GetCandlesCall(r)
    \/ \E http \in HttpScripts(DefaultRetries) : GetCandlesValidate(http)
    \/ /\ op = "candles"
       /\ gen = "none"
       /\ \E metas \in [1..Len(req.indicators) -> MetaOutcomes],
             failAt \in 0..(4 + 2 * Len(req.indicators)) :
             GetCandlesRegister(metas, failAt)
    \/ \E e \in RecvErrors : CandlesRecvError(e)
    \/ \E raw \in HeartbeatMsgs \cup DataMsgs, echo \in {"ok", "closed", "other"} :
          CandlesRecv(raw, echo)

Generators ==
    \/ \E r \in StreamRequests : StreamRealtimePrice(r)
    \/ \E http \in HttpScripts(DefaultRetries), failAt \in 0..2 :
          PriceFirstNext(http, failAt)
    \/ \E r \in StreamRequests, failAt \in 0..6 : GetOhlcv(r, failAt)
    \/ OhlcvFirstNext
    \/ \E raw \in HeartbeatMsgs \cup StreamMsgs, echo \in {"ok", "closed", "other"} :
          GenRecv(raw, echo)
    \/ \E e \in RecvErrors : GenRecvError(e)
    \/ GenResume
    \/ GenClose

Next == Construct \/ GetCandles \/ Generators

Spec == Init /\ [][Next]_vars

(***************************************************************************)
(* The framing round trip: create_message, then the receive loop's         *)
(* deframing and decoding of what it produced.                             *)
(***************************************************************************)
FrameTokens == {HeaderMark, <<"1">>, <<"a">>, <<DQ>>, <<BS>>}

\* the texts made of at most n tokens
RECURSIVE Texts(_)
Texts(n) ==
    IF n = 0 THEN {<<>>}
    ELSE Texts(n - 1) \cup {t \o tok : t \in Texts(n - 1), tok \in FrameTokens}

FrameMethods == Texts(MaxTok)

ParamVals == {JNum(10), JStr(<<"a", DQ>>), JStr(Hdr(1))}

ParamLists == UNION {[1..k -> ParamVals] : k \in 0..MaxParams}

FrameInit ==
    /\ ProtocolInit
    /\ ValidateOff
    /\ MindsOff
    /\ IdeasOff
    /\ LiveOff
    /\ SendOff
    /\ f_pc = "input"
    /\ f_method \in FrameMethods
    /\ f_params \in ParamLists
    /\ f_frame = <<>>
    /\ f_parts = <<>>

\* StreamHandler.create_message(func, param_list)
FrameCreate ==
    /\ f_pc = "input"
    /\ f_frame' = create_message(f_method, f_params)
    /\ f_pc' = "framed"
    /\ UNCHANGED <<f_method, f_params, f_parts>>
    /\ UNCHANGED <<validateVars, mindsVars, ideasVars, liveVars, sendVars>>
    /\ UNCHANGED protocolVars

\* streamer.py lines 248-251 on the frame: split, drop the empty pieces, decode
FrameDeframe ==
    /\ f_pc = "framed"
    /\ f_parts' = [k \in 1..Len(SplitParts(f_frame)) |->
                      JsonLoads(SplitParts(f_frame)[k])]
    /\ f_pc' = "decoded"
    /\ UNCHANGED <<f_method, f_params, f_frame>>
    /\ UNCHANGED <<validateVars, mindsVars, ideasVars, liveVars, sendVars>>
    /\ UNCHANGED protocolVars

FrameNext == FrameCreate \/ FrameDeframe

SpecFrame == FrameInit /\ [][FrameNext]_vars

(***************************************************************************)
(* validate_symbols on its own: every number of retries, every run of      *)
(* answers of requests.get.                                                *)
(***************************************************************************)
MaxRetries == 3

ValidatePairs == {<<"BINANCE", "BTCUSDT">>, <<"", "BTCUSDT">>, <<"BINANCE", "">>}

\* validate_symbols(exchange, symbol, retries), and what the n-th requests.get
\* does if it is made
ValidateArgs ==
    {[exchange |-> pr[1], symbol |-> pr[2], retries |-> n, http |-> h] :
        pr \in ValidatePairs, n \in 0..MaxRetries,
        h \in [1..MaxRetries -> HttpOutcomes]}

ValidateInit ==
    /\ ProtocolInit
    /\ FrameOff
    /\ MindsOff
    /\ IdeasOff
    /\ LiveOff
    /\ SendOff
    /\ v_pc = "input"
    /\ v_args \in ValidateArgs
    /\ v_out = <<>>

\* utils.py lines 24-63
ValidateCall ==
    /\ v_pc = "input"
    /\ v_out' = validate_symbols(v_args.exchange, v_args.symbol, v_args.retries,
                                 v_args.http)
    /\ v_pc' = "done"
    /\ UNCHANGED v_args
    /\ UNCHANGED <<frameVars, mindsVars, ideasVars, liveVars, sendVars>>
    /\ UNCHANGED protocolVars

SpecValidate == ValidateInit /\ [][ValidateCall]_vars

(***************************************************************************)
(* Minds.get_minds: cursor pagination with a limit.  A text is a sequence   *)
(* of tokens.                                                              *)
(***************************************************************************)
MaxLimit == 2

MaxPageItems == 2

\* the most requests one call makes here
MaxGets == 3

\* the exchanges the validator knows
MindsExchanges == {"NASDAQ"}

\* get_minds(exchange, symbol, limit) on a scraper made with export_result
MindsArgs ==
    {[exchange |-> e, symbol |-> sy, limit |-> l, export_result |-> x] :
        e \in {"NASDAQ", "NOWHERE"}, sy \in {"AAPL", ""},
        l \in {NoneVal} \cup {Val(n) : n \in 0..MaxLimit}, x \in BOOLEAN}

\* the "next" of a page
NextUrls ==
    {<<>>, <<"u", "?c=", "abc", "&", "x">>, <<"u", "?", "x">>, <<"u", "?c=">>}

\* what one requests.get comes to: status 0 stands for an exception raised by
\* requests.get or by response.json; items is the length of "results"; info
\* tells whether meta.symbols_info has an entry for the symbol
MindsResponses ==
    {[status |-> 200, items |-> k, next |-> u, info |-> b] :
        k \in 0..MaxPageItems, u \in NextUrls, b \in BOOLEAN}
    \cup {[status |-> st, items |-> 0, next |-> <<>>, info |-> FALSE] :
             st \in {0, 500}}

\* the results of the response to the g-th request
ResultsOf(resp, g) == [j \in 1..resp.items |-> [uid |-> <<g, j>>]]

\* minds.py lines 148-190, for the keys of the items above
_parse_mind(item) ==
    [uid |-> item.uid,
     text |-> IF "text" \in DOMAIN item THEN item.text ELSE "",
     total_likes |-> IF "total_likes" \in DOMAIN item THEN item.total_likes ELSE 0]

\* text.split(sep)
RECURSIVE SplitOn(_, _)
SplitOn(text, sep) ==
    IF \A k \in 1..Len(text) : text[k] # sep THEN <<text>>
    ELSE LET k == CHOOSE k \in 1..Len(text) :
                      text[k] = sep /\ \A q \in 1..(k - 1) : text[q] # sep
         IN <<SubSeq(text, 1, k - 1)>> \o SplitOn(SubSeq(text, k + 1, Len(text)), sep)

\* line 124
CursorOf(next_url) == SplitOn(SplitOn(next_url, "?c=")[2], "&")[1]

\* lines 120-122: no next page
NoNextPage(next_url) == next_url = <<>> \/ \A k \in 1..Len(next_url) : next_url[k] # "?c="

\* line 116
LimitReached(limit, n) == ~IsNone(limit) /\ n >= limit.val

\* a variant of lines 130-131 that leaves the list as it is
NoTruncation(data, limit) == data

\* lines 130-131
ApplyLimit(data, limit) ==
    IF ~IsNone(limit) /\ Len(data) > limit.val THEN SubSeq(data, 1, limit.val)
    ELSE data

\* lines 67-71: the message of the ValidationError, "" if there is none (the
\* suggestions that follow the exchange in the message are left out)
MindsValidation(a) ==
    IF a.exchange \notin MindsExchanges
    THEN "Invalid exchange: '" \o a.exchange \o "'."
    ELSE IF a.symbol = ""
    THEN "Symbol must be a non-empty string for exchange '" \o a.exchange \o "'."
    ELSE ""

MindsInit ==
    /\ ProtocolInit
    /\ FrameOff
    /\ ValidateOff
    /\ IdeasOff
    /\ LiveOff
    /\ SendOff
    /\ m_pc = "input"
    /\ m_args \in MindsArgs
    /\ parsed_data = <<>>
    /\ next_cursor = <<>>
    /\ pages = 0
    /\ symbol_info = <<>>
    /\ m_gets = <<>>
    /\ m_fetched = <<>>
    /\ m_exported = <<>>
    /\ m_result = <<>>

\* lines 67-78: the validation, then the locals of the loop
GetMindsCall ==
    /\ m_pc = "input"
    /\ IF MindsValidation(m_args) # ""
       THEN /\ m_result' = _error_response(MindsValidation(m_args), EmptyDict)
            /\ m_pc' = "done"
       ELSE /\ m_pc' = "loop"
            /\ UNCHANGED m_result
    /\ UNCHANGED <<m_args, parsed_data, next_cursor, pages, symbol_info, m_gets,
                   m_fetched, m_exported>>
    /\ UNCHANGED <<frameVars, validateVars, ideasVars, liveVars, sendVars>>
    /\ UNCHANGED protocolVars

\* lines 93-96 and 126-127: the call returns an error envelope
MindsFails(msg) ==
    /\ m_result' = _error_response(msg, EmptyDict)
    /\ m_pc' = "done"
    /\ UNCHANGED <<parsed_data, next_cursor, pages, symbol_info, m_fetched, m_exported>>

\* lines 130-146: the loop is left with data, pg pages and the symbol info si
MindsReturns(data, pg, si) ==
    /\ parsed_data' = data
    /\ pages' = pg
    /\ symbol_info' = si
    /\ m_exported' = IF m_args.export_result /\ data # <<>> THEN <<data>> ELSE <<>>
    /\ m_result' = _success_response(data, [total |-> Len(data), pages |-> pg,
                                            symbol_info |-> si])
    /\ m_pc' = "done"
    /\ UNCHANGED next_cursor

\* lines 104-124: a page with results has been parsed into data
MindsPageTaken(resp, data, pg, si) ==
    IF LimitReached(m_args.limit, Len(data)) \/ NoNextPage(resp.next)
    THEN MindsReturns(ApplyLimit(data, m_args.limit), pg, si)
    ELSE /\ parsed_data' = data
         /\ pages' = pg
         /\ symbol_info' = si
         /\ next_cursor' = CursorOf(resp.next)
         /\ UNCHANGED <<m_pc, m_exported, m_result>>

\* lines 81-127: one turn of the loop, and what follows the loop if the turn
\* leaves it.  The request is recorded with its cursor (<<>>: no "c"
\* parameter) and the number of items held when it is made.
GetMindsPage(resp) ==
    /\ m_pc = "loop"
    /\ Len(m_gets) < MaxGets
    /\ m_gets' = Append(m_gets, [c |-> next_cursor, had |-> Len(parsed_data)])
    /\ IF resp.status = 0
       THEN MindsFails("Request failed") /\ UNCHANGED m_fetched
       ELSE IF resp.status # 200
       THEN MindsFails("HTTP " \o ToString(resp.status)) /\ UNCHANGED m_fetched
       ELSE IF resp.items = 0
       THEN /\ MindsReturns(ApplyLimit(parsed_data, m_args.limit), pages, symbol_info)
            /\ UNCHANGED m_fetched
       ELSE /\ m_fetched' = m_fetched \o ResultsOf(resp, Len(m_gets) + 1)
            /\ MindsPageTaken(
                  resp,
                  parsed_data \o [j \in 1..resp.items |->
                                     _parse_mind(ResultsOf(resp, Len(m_gets) + 1)[j])],
                  pages + 1,
                  IF pages = 0 THEN (IF resp.info THEN <<"info">> ELSE <<>>)
                  ELSE symbol_info)
    /\ UNCHANGED m_args
    /\ UNCHANGED <<frameVars, validateVars, ideasVars, liveVars, sendVars>>
    /\ UNCHANGED protocolVars

MindsNext == GetMindsCall \/ \E resp \in MindsResponses : GetMindsPage(resp)

SpecMinds == MindsInit /\ [][MindsNext]_vars

(***************************************************************************)
(* Ideas.get_data: the pages of a range fetched by a pool of workers.      *)
(***************************************************************************)
\* the last page a request names
MaxPage == 4

\* the most items a page holds
MaxIdeaItems == 1

\* ThreadPoolExecutor(max_workers=3)
MaxWorkers == 3

\* what _scrape_page comes to for a page: a number of items, None on a
\* captcha page, or an exception (a status other than 200, a failed request,
\* a body that is not JSON)
PageOutcomes == {[kind |-> "items", n |-> k] : k \in 0..MaxIdeaItems}
                \cup {[kind |-> "captcha", n |-> 0], [kind |-> "raise", n |-> 0]}

\* get_data(exchange, symbol, start_page, end_page) on a scraper made with
\* export_result, for a range that holds a page; valid: the validation of
\* lines 77-81 raises nothing; answers: the outcome of _scrape_page for each
\* page of the range
IdeasArgsOver(a, b) ==
    {[exchange |-> "CRYPTO", symbol |-> "BTCUSD", start_page |-> a, end_page |-> b,
      valid |-> v, export_result |-> x, answers |-> f] :
        v \in BOOLEAN, x \in BOOLEAN, f \in [a..b -> PageOutcomes]}

IdeasArgs ==
    UNION {IdeasArgsOver(pr[1], pr[2]) :
           pr \in {q \in (1..MaxPage) \X (1..MaxPage) : q[1] <= q[2]}}

\* line 91
page_list(a) == [k \in 1..(a.end_page - a.start_page + 1) |-> a.start_page + k - 1]

\* the raw items of the page
IdeaItems(a, page) == [j \in 1..a.answers[page].n |-> [name |-> <<page, j>>]]

\* lines 202-222, for the keys of the items above
_map_idea(item) ==
    [title |-> IF "name" \in DOMAIN item THEN item.name ELSE "",
     description |-> IF "description" \in DOMAIN item THEN item.description ELSE "",
     likes_count |-> IF "likes_count" \in DOMAIN item THEN item.likes_count ELSE 0]

\* lines 184-188: what a worker returns for a page that raised nothing
_scrape_page(a, page) ==
    [j \in 1..Len(IdeaItems(a, page)) |-> _map_idea(IdeaItems(a, page)[j])]

\* a variant of the loop body that goes on to the next future when a page
\* has failed
SkipFailedPage(arts, a, page) ==
    [abort |-> FALSE, error |-> "",
     articles |-> IF a.answers[page].kind = "items" THEN arts \o _scrape_page(a, page)
                  ELSE arts]

\* lines 103-117: the body of the loop over as_completed for the future of page
AfterFuture(arts, a, page) ==
    IF a.answers[page].kind = "raise"
    THEN [abort |-> TRUE, articles |-> arts,
          error |-> "Failed to scrape page " \o ToString(page) \o ": HTTP 500"]
    ELSE IF a.answers[page].kind = "captcha"
    THEN [abort |-> TRUE, articles |-> arts,
          error |-> "Captcha challenge encountered on page " \o ToString(page)
                    \o ". Try updating the TRADINGVIEW_COOKIE."]
    ELSE [abort |-> FALSE, error |-> "", articles |-> arts \o _scrape_page(a, page)]

\* the pages of the request
PagesOf(a) == a.start_page..a.end_page

\* the pages whose future is done
IdeasFinished ==
    PagesOf(i_args) \ ({i_queue[k] : k \in 1..Len(i_queue)} \cup i_running)

IdeasInit ==
    /\ ProtocolInit
    /\ FrameOff
    /\ ValidateOff
    /\ MindsOff
    /\ LiveOff
    /\ SendOff
    /\ i_pc = "input"
    /\ i_args \in IdeasArgs
    /\ i_queue = <<>>
    /\ i_running = {}
    /\ i_left = {}
    /\ articles = <<>>
    /\ i_exported = <<>>
    /\ i_result = <<>>

\* lines 77-101: the validation, then every page is submitted to the pool
IdeasCall ==
    /\ i_pc = "input"
    /\ IF ~i_args.valid
       THEN /\ i_result' = _error_response("ValidationError", EmptyDict)
            /\ i_pc' = "done"
            /\ UNCHANGED <<i_queue, i_left>>
       ELSE /\ i_queue' = page_list(i_args)
            /\ i_left' = PagesOf(i_args)
            /\ i_pc' = "collect"
            /\ UNCHANGED i_result
    /\ UNCHANGED <<i_args, i_running, articles, i_exported>>
    /\ UNCHANGED <<frameVars, validateVars, mindsVars, liveVars, sendVars>>
    /\ UNCHANGED protocolVars

\* a free worker of the pool takes the page that has waited longest
WorkerStart ==
    /\ i_pc \in {"collect", "shutdown"}
    /\ i_queue # <<>>
    /\ Cardinality(i_running) < MaxWorkers
    /\ i_running' = i_running \cup {Head(i_queue)}
    /\ i_queue' = Tail(i_queue)
    /\ UNCHANGED <<i_pc, i_args, i_left, articles, i_exported, i_result>>
    /\ UNCHANGED <<frameVars, validateVars, mindsVars, liveVars, sendVars>>
    /\ UNCHANGED protocolVars

\* lines 135-200: the worker of the page is through, its future is done
WorkerDone(page) ==
    /\ i_pc \in {"collect", "shutdown"}
    /\ page \in i_running
    /\ i_running' = i_running \ {page}
    /\ UNCHANGED <<i_pc, i_args, i_queue, i_left, articles, i_exported, i_result>>
    /\ UNCHANGED <<frameVars, validateVars, mindsVars, liveVars, sendVars>>
    /\ UNCHANGED protocolVars

\* lines 119-133: every future has been taken
IdeasReturns(arts) ==
    /\ articles' = arts
    /\ i_exported' = IF i_args.export_result THEN <<arts>> ELSE <<>>
    /\ i_result' = _success_response(arts, [exchange |-> i_args.exchange,
                                            symbol |-> i_args.symbol,
                                            total |-> Len(arts),
                                            pages |-> Len(page_list(i_args))])
    /\ i_pc' = "done"

\* the loop over as_completed has taken the future of page and come to r
IdeasTaken(page, r) ==
    /\ i_left' = i_left \ {page}
    /\ IF r.abort
       THEN /\ i_result' = _error_response(r.error, EmptyDict)
            /\ i_pc' = "shutdown"
            /\ UNCHANGED <<articles, i_exported>>
       ELSE IF i_left = {page} THEN IdeasReturns(r.articles)
       ELSE /\ articles' = r.articles
            /\ UNCHANGED <<i_pc, i_exported, i_result>>

\* lines 102-133: as_completed yields a future that is done, in any order;
\* the body of the loop, and what follows the loop after the last future
IdeasTake(page) ==
    /\ i_pc = "collect"
    /\ page \in i_left \cap IdeasFinished
    /\ IdeasTaken(page, AfterFuture(articles, i_args, page))
    /\ UNCHANGED <<i_args, i_queue, i_running>>
    /\ UNCHANGED <<frameVars, validateVars, mindsVars, liveVars, sendVars>>
    /\ UNCHANGED protocolVars

\* lines 95 and 108-117: the return inside the with block leaves it once the
\* pool has shut down, every submitted page fetched
IdeasExit ==
    /\ i_pc = "shutdown"
    /\ i_queue = <<>>
    /\ i_running = {}
    /\ i_pc' = "done"
    /\ UNCHANGED <<i_args, i_queue, i_running, i_left, articles, i_exported, i_result>>
    /\ UNCHANGED <<frameVars, validateVars, mindsVars, liveVars, sendVars>>
    /\ UNCHANGED protocolVars

IdeasNext ==
    \/ IdeasCall
    \/ WorkerStart
    \/ \E page \in 1..MaxPage : WorkerDone(page)
    \/ \E page \in 1..MaxPage : IdeasTake(page)
    \/ IdeasExit

SpecIdeas == IdeasInit /\ [][IdeasNext]_vars

(***************************************************************************)
(* The receive loop of get_candles on a socket that never stops            *)
(* delivering: the specification starts where the loop starts, after a     *)
(* registration in which nothing failed, and keeps of the heartbeats only  *)
(* the last one sent back.                                                 *)
(***************************************************************************)
LiveRequests == {r \in CandleRequests : r.exchange # ""}

\* lines 113-122 on an open socket, every metadata lookup answered
LiveRegistration(r, qs, cs) ==
    IndicatorsAdded(
       SymbolAdded(SendAll(<<>>, "open",
                           _add_symbol_to_sessions(qs, cs,
                                                   format_symbol(r.exchange, r.symbol),
                                                   r.timeframe, r.numb_candles),
                           0),
                   EmptyMap),
       r, [n \in 1..Len(r.indicators) |-> "ok"], 0, qs, cs)

LiveInit ==
    /\ FrameOff
    /\ ValidateOff
    /\ MindsOff
    /\ IdeasOff
    /\ LiveOff
    /\ SendOff
    /\ client = "Streamer"
    /\ export_result = FALSE
    /\ \E d \in RandomDraws :
          /\ quote_session = generate_session("qs_", d[1])
          /\ chart_session = generate_session("cs_", d[2])
    /\ init_sent = _initialize_sessions(quote_session, chart_session,
                                        "unauthorized_user_token")
    /\ ws = "open"
    /\ close_calls = 0
    /\ req \in LiveRequests
    /\ call_sent = LiveRegistration(req, quote_session, chart_session).sent
    /\ study_id_to_name_map = LiveRegistration(req, quote_session, chart_session).map
    /\ op = "candles"
    /\ gen = "recv"
    /\ parts = <<>>
    /\ ohlcv_data = <<>>
    /\ indicator_data = EmptyDict
    /\ consumed = 0
    /\ result = NoResult
    /\ outcome = "none"
    /\ yielded = <<>>
    /\ exports = <<>>
    /\ raised = ""
    /\ rx_hb = <<>>
    /\ hb_decoded = FALSE
    /\ rx_raws = <<>>
    /\ last_ts = NoSnapshot

\* streamer.py lines 128-149 and 233-253: recv returns raw, a heartbeat is
\* sent back, the fragments of anything else go through the loop body
LiveRecv(raw) ==
    /\ op = "candles"
    /\ gen = "recv"
    /\ ws = "open"
    /\ l_turn' = 1 - l_turn
    /\ l_echo' = IF IsHeartbeat(raw) THEN raw ELSE l_echo
    /\ LoopReaches(ConsumeParts(FragmentsToDecode(raw), Locals, req,
                                study_id_to_name_map))
    /\ UNCHANGED <<call_sent, study_id_to_name_map, parts, req, yielded, rx_hb,
                   hb_decoded, rx_raws>>
    /\ UNCHANGED objectVars
    /\ UNCHANGED <<frameVars, validateVars, mindsVars, ideasVars, sendVars>>

LiveNext == \E raw \in HeartbeatMsgs \cup DataMsgs : LiveRecv(raw)

\* the socket goes on delivering as long as the loop receives
SpecLive == LiveInit /\ [][LiveNext]_vars /\ WF_vars(LiveNext)

(***************************************************************************)
(* StreamHandler.send_message over a sequence of calls: the six calls of   *)
(* the handshake, then the four calls get_candles makes for its symbol.    *)
(***************************************************************************)
\* what one ws.send does
SendErrors == {"ok", "ConnectionError", "TimeoutError", "WebSocketException"}

\* stream_handler.py line 137: except (ConnectionError, TimeoutError)
SwallowedErrors == {"ConnectionError", "TimeoutError"}

\* a variant of send_message without its except clause
RaisingSendMessage(st, call, err) ==
    [sent |-> Append(st.sent, call),
     dropped |-> st.dropped,
     raised |-> err # "ok"]

\* stream_handler.py lines 126-138: ws.send is called with the framed call;
\* an error of line 137 is logged and the call returns, any other goes up
send_message(st, call, err) ==
    [sent |-> Append(st.sent, call),
     dropped |-> IF err \in SwallowedErrors THEN Append(st.dropped, call)
                 ELSE st.dropped,
     raised |-> err \notin SwallowedErrors \cup {"ok"}]

HandshakeCalls ==
    _initialize_sessions("qs_abcdefghijkl", "cs_zzzzzzzzzzzz",
                         "unauthorized_user_token")

SymbolCalls ==
    _add_symbol_to_sessions("qs_abcdefghijkl", "cs_zzzzzzzzzzzz",
                            format_symbol("BINANCE", "BTCUSDT"), "1h", 1)

\* the calls of the sequence that the script s_errs was drawn for
SequenceCalls == IF Len(s_errs) = Len(HandshakeCalls) THEN HandshakeCalls
                 ELSE SymbolCalls

SendInit ==
    /\ ProtocolInit
    /\ FrameOff
    /\ ValidateOff
    /\ MindsOff
    /\ IdeasOff
    /\ LiveOff
    /\ s_pc = "handshake"
    /\ s_errs \in [1..Len(HandshakeCalls) -> SendErrors]
    /\ s_sent = <<>>
    /\ s_dropped = <<>>

\* where the sequence stands after its n-th send_message came to out:
\* StreamHandler.__init__ raises or returns, get_candles returns its failed
\* envelope (streamer.py line 166) or reaches its receive loop (line 128)
SendReaches(out, n) ==
    /\ s_sent' = out.sent
    /\ s_dropped' = out.dropped
    /\ s_pc' = IF out.raised THEN "failed"
               ELSE IF n < Len(SequenceCalls) THEN s_pc
               ELSE IF s_pc = "handshake" THEN "constructed"
               ELSE "loop"

\* the next send_message of the sequence
SendMessageStep ==
    /\ s_pc \in {"handshake", "registration"}
    /\ SendReaches(send_message([sent |-> s_sent, dropped |-> s_dropped],
                                SequenceCalls[Len(s_sent) + 1],
                                s_errs[Len(s_sent) + 1]),
                   Len(s_sent) + 1)
    /\ UNCHANGED s_errs
    /\ UNCHANGED protocolVars
    /\ UNCHANGED <<frameVars, validateVars, mindsVars, ideasVars, liveVars>>

\* get_candles on the handler that came up: streamer.py lines 113-119
SendGetCandles(errs) ==
    /\ s_pc = "constructed"
    /\ s_pc' = "registration"
    /\ s_errs' = errs
    /\ s_sent' = <<>>
    /\ s_dropped' = <<>>
    /\ UNCHANGED protocolVars
    /\ UNCHANGED <<frameVars, validateVars, mindsVars, ideasVars, liveVars>>

SendNext ==
    \/ SendMessageStep
    \/ \E errs \in [1..Len(SymbolCalls) -> SendErrors] : SendGetCandles(errs)

SpecSend == SendInit /\ [][SendNext]_vars

(***************************************************************************)
(* Properties of get_candles.                                              *)
(***************************************************************************)
\* the request at hand is one of get_candles
IsCandles == "numb_candles" \in DOMAIN req

\* get_candles has returned an envelope
CandlesReturned == IsCandles /\ op = "idle"

\* enough candles, and enough indicator names if any indicator was requested
EnoughCollected ==
    /\ Len(ohlcv_data) >= req.numb_candles
    /\ (req.indicators = <<>> \/ Len(indicator_data) >= Len(req.indicators))

\* within one raw message, the packets after the one that satisfied the
\* request are left alone
StopsAtFirst(ps, whole, loc, r, map) ==
    \A k \in 1..Len(ps) :
        ConsumeParts(SubSeq(ps, 1, k), loc, r, map).status = "SATISFIED"
            => whole = ConsumeParts(SubSeq(ps, 1, k), loc, r, map)

\* C1: the loop of get_candles ends SATISFIED exactly when, after a decoded
\* packet, there are at least numb_candles candles and (no indicator was
\* requested or at least as many indicator names as requested were collected);
\* while the loop goes on, and when it ends otherwise, the condition is false
\* after every packet, and nothing is consumed after the satisfying packet.
C1_StopExactlyWhenSatisfied ==
    IsCandles =>
        /\ (op = "candles" /\ gen = "recv" /\ consumed > 0) => ~EnoughCollected
        /\ outcome = "SATISFIED" => (EnoughCollected /\ consumed > 0)
        /\ (outcome \in {"CEILING", "SOCKET_ERROR"} /\ consumed > 0)
              => ~EnoughCollected
        /\ (op = "candles" /\ gen = "recv") =>
              \A raw \in DataMsgs :
                  StopsAtFirst(FragmentsToDecode(raw),
                               ConsumeParts(FragmentsToDecode(raw), Locals, req,
                                            study_id_to_name_map),
                               Locals, req, study_id_to_name_map)

\* a request with indicators satisfied by its second or a later packet
C1_Witness ==
    /\ IsCandles
    /\ outcome = "SATISFIED"
    /\ consumed > 1
    /\ req.indicators # <<>>
    /\ Len(indicator_data) = Len(req.indicators)

\* C2: get_candles consumes at most 16 decoded packets.
C2_AtMostSixteen == IsCandles => consumed <= 16

\* C3: when the loop ends without satisfaction, by the ceiling or by a socket
\* error of recv, get_candles returns status "success", a null error and the
\* candles and indicators accumulated so far.
C3_PartialIsSuccess ==
    (CandlesReturned /\ outcome \in {"CEILING", "SOCKET_ERROR"}) =>
        /\ result.status = "success"
        /\ IsNone(result.error)
        /\ result.data = [ohlcv |-> ohlcv_data, indicators |-> indicator_data]

\* a socket error after one candle of the two requested
C3_Witness ==
    /\ CandlesReturned
    /\ outcome = "SOCKET_ERROR"
    /\ req.numb_candles = 2
    /\ consumed > 0
    /\ result.status = "success"
    /\ Len(result.data.ohlcv) = 1

\* the candle record of one entry of a timescale_update
EntryAsCandle(e) ==
    IF Len(e.v) > 5
    THEN [index |-> e.i, timestamp |-> e.v[1], open |-> e.v[2], high |-> e.v[3],
          low |-> e.v[4], close |-> e.v[5], volume |-> e.v[6]]
    ELSE [index |-> e.i, timestamp |-> e.v[1], open |-> e.v[2], high |-> e.v[3],
          low |-> e.v[4], close |-> e.v[5]]

EntriesAsCandles(entries) == [n \in 1..Len(entries) |-> EntryAsCandle(entries[n])]

\* C4 as stated: the returned candles are the entries of the last
\* timescale_update processed.
C4_LastUpdateReturned ==
    (CandlesReturned /\ result.status = "success" /\ last_ts.seen) =>
        result.data.ohlcv = EntriesAsCandles(last_ts.entries)

\* C4: the candles held, and returned, are the entries of the last
\* timescale_update processed that carried at least one entry (none if there
\* was no such update); an update without entries leaves the earlier ones.
C4_LastNonEmptyUpdateReturned ==
    /\ (IsCandles /\ outcome # "EXCEPTION" /\ (gen = "recv" \/ outcome # "none"))
          => ohlcv_data = EntriesAsCandles(last_ts.full)
    /\ (CandlesReturned /\ result.status = "success")
          => result.data.ohlcv = EntriesAsCandles(last_ts.full)

\* an update with one entry, then one without entries, then the return
C4_Witness ==
    /\ CandlesReturned
    /\ result.status = "success"
    /\ last_ts.seen
    /\ last_ts.entries = <<>>
    /\ Len(result.data.ohlcv) = 1

\* the studies a du packet carries
DuStudies(pkt) ==
    IF "m" \in DOMAIN pkt /\ pkt.m = "du" /\ Len(pkt.p) >= 2 /\ pkt.p[2].t = "d"
    THEN pkt.p[2].d
    ELSE <<>>

\* a key that starts with "st", is registered, and has more than 10 entries
Qualifies(pair, map) ==
    /\ StartsWithSt(pair.k)
    /\ pair.k \in DOMAIN map
    /\ "st" \in DOMAIN pair.v
    /\ Len(pair.v.st) >= 11

\* the converted entry of a study item with two values
ItemAsRecord(item) ==
    [index |-> item.i, timestamp |-> item.v[1]]
        @@ ("0" :> item.v[2] @@ "1" :> item.v[3])

\* the places of the studies d that give a value to the name nm
Givers(d, map, nm) == {n \in 1..Len(d) : Qualifies(d[n], map) /\ map[d[n].k] = nm}

LastGiver(d, givers) == d[CHOOSE n \in givers : \A q \in givers : q <= n]

\* the value nm has after the studies d, old being the accumulator before
ValueAfter(d, givers, old, nm) ==
    IF givers = {} THEN Lookup(old, nm)
    ELSE [n \in 1..Len(LastGiver(d, givers).v.st) |->
             ItemAsRecord(LastGiver(d, givers).v.st[n])]

\* new is old with the qualifying studies of d stored under their names
StoredAsClaimed(d, new, old, map) ==
    /\ Keys(new) = Keys(old) \cup {map[d[n].k] : n \in {q \in 1..Len(d) :
                                                          Qualifies(d[q], map)}}
    /\ \A nm \in Keys(new) : Lookup(new, nm) = ValueAfter(d, Givers(d, map, nm), old, nm)

\* C5: a key of a du packet contributes only if it starts with "st", is in
\* the study registration table and has an st array of more than 10 entries
\* (10 do not count, 11 do); its entries are stored under the registered
\* name, replace an earlier value of that name, and leave other names alone.
C5_OnlyRegisteredBursts ==
    IsCandles =>
        /\ \A n \in 1..Len(indicator_data) :
              /\ \E key \in DOMAIN study_id_to_name_map :
                    study_id_to_name_map[key] = indicator_data[n].k
              /\ Len(indicator_data[n].v) > 10
        /\ (op = "candles" /\ gen = "recv") =>
              \A name \in DOMAIN PacketTable :
                  StoredAsClaimed(
                      DuStudies(PacketTable[name]),
                      KeepIndicators(indicator_data,
                          _extract_indicator_from_stream(PD(PacketTable[name]),
                                                         study_id_to_name_map).val),
                      indicator_data, study_id_to_name_map)

\* two names are held and the value of the first was replaced by a later,
\* shorter burst of 11 entries
C5_Witness ==
    /\ IsCandles
    /\ HasKey(indicator_data, "STD;MACD")
    /\ HasKey(indicator_data, "STD;RSI")
    /\ Len(Lookup(indicator_data, "STD;RSI")) = 11

\* a step of a running receive loop: nothing is sent, or the heartbeat just
\* received is sent back as it came, undecoded, with nothing yielded and no
\* packet counted (the count goes back to 0 if the echo raises)
HeartbeatStep ==
    gen \in {"recv", "yield"} =>
        \/ rx_hb' = rx_hb /\ call_sent' = call_sent
        \/ /\ Len(rx_hb') = Len(rx_hb) + 1
           /\ call_sent' = Append(call_sent, [raw |-> rx_hb'[Len(rx_hb')]])
           /\ ~hb_decoded'
           /\ yielded' = yielded
           /\ consumed' <= consumed

\* C6: in the receive loops of Streamer and of RealTimeData a heartbeat is
\* echoed once, unmodified, is never handed to the JSON decoder and never
\* yielded; and the echoes are the only messages sent while a loop runs.
C6_HeartbeatEchoedOnly == [][HeartbeatStep]_vars

\* RealTimeData.get_ohlcv has echoed a heartbeat and yielded a packet
C6_Witness ==
    /\ client = "RealTimeData"
    /\ op = "ohlcv"
    /\ rx_hb # <<>>
    /\ yielded # <<>>
    /\ call_sent[Len(call_sent)] = [raw |-> rx_hb[Len(rx_hb)]]

(***************************************************************************)
(* Properties of the framing.                                              *)
(***************************************************************************)
\* the object {"m": method, "p": params}
FramedObject ==
    JObj(<<[k |-> <<"m">>, v |-> JStr(f_method)], [k |-> <<"p">>, v |-> JArr(f_params)]>>)

\* deframing gave one fragment, which parses to the object that was framed
RoundTrips ==
    /\ Len(f_parts) = 1
    /\ f_parts[1].ok
    /\ f_parts[1].v = FramedObject

\* the text s holds ~m~, one digit or more, ~m~
HoldsHeader(s) ==
    \E i \in 1..Len(s) : \E j \in (i + 4)..(Len(s) - 2) :
        /\ s[i] = "~" /\ s[i + 1] = "m" /\ s[i + 2] = "~"
        /\ \A q \in (i + 3)..(j - 1) : IsDigit(s[q])
        /\ s[j] = "~" /\ s[j + 1] = "m" /\ s[j + 2] = "~"

ParamHoldsHeader(v) == v.t = "s" /\ HoldsHeader(v.s)

SetupSequence(tok) ==
    <<[m |-> "set_auth_token", p |-> <<tok>>],
      [m |-> "set_locale", p |-> <<"en", "US">>],
      [m |-> "chart_create_session", p |-> <<chart_session, "">>],
      [m |-> "quote_create_session", p |-> <<quote_session>>],
      [m |-> "quote_set_fields", p |-> <<quote_session>> \o _QUOTE_FIELDS],
      [m |-> "quote_hibernate_all", p |-> <<quote_session>>]>>

\* the calls that only the setup sequence makes
SetupOnlyCalls ==
    {"set_auth_token", "set_locale", "chart_create_session",
     "quote_create_session", "quote_set_fields"}

\* what construction sent is the first calls of the setup sequence
SentIsSetupPrefix(sent) ==
    \E args \in StreamerArgs :
        sent = SubSeq(SetupSequence(args.jwt), 1, Len(sent))

\* C8: construction sends the six setup calls, in order and once each, before
\* any other message, and no later operation sends them again.
C8_SetupOnceInOrder ==
    /\ Len(init_sent) <= 6
    /\ SentIsSetupPrefix(init_sent)
    /\ client \in {"Streamer", "RealTimeData"} => Len(init_sent) = 6
    /\ init_sent = <<>> => call_sent = <<>>
    /\ \A n \in 1..Len(call_sent) :
          "m" \in DOMAIN call_sent[n] => call_sent[n].m \notin SetupOnlyCalls

\* a constructed Streamer with its token, in the receive loop of get_candles
C8_Witness ==
    /\ client = "Streamer"
    /\ init_sent[1].p = <<"test_token">>
    /\ op = "candles"
    /\ gen = "recv"
    /\ Len(call_sent) > 4

\* C9: once the receive loop of get_candles has started, the socket has been
\* closed by the time get_candles returns, however the loop ended.
C9_ClosedOnReturn ==
    (CandlesReturned /\ outcome # "none") => (ws = "closed" /\ close_calls >= 1)

\* the loop ended by an exception raised while a packet was processed
C9_Witness ==
    /\ CandlesReturned
    /\ outcome = "EXCEPTION"
    /\ result.error = Str("KeyError")
    /\ ws = "closed"

\* C10: get_candles never raises; it returns an envelope with the keys
\* status, data, metadata and error; "success" comes with a null error and a
\* data of ohlcv and indicators, "failed" with a null data and an error string.
C10_AlwaysAnEnvelope ==
    CandlesReturned =>
        /\ raised = ""
        /\ DOMAIN result = {"status", "data", "metadata", "error"}
        /\ result.status \in {"success", "failed"}
        /\ result.status = "success" =>
              /\ IsNone(result.error)
              /\ DOMAIN result.data = {"ohlcv", "indicators"}
        /\ result.status = "failed" =>
              /\ IsNone(result.data)
              /\ DOMAIN result.error = {"str"}

\* a send of the symbol registration raised
C10_Witness ==
    /\ CandlesReturned
    /\ outcome = "none"
    /\ result.status = "failed"
    /\ result.error = Str("WebSocketException")

(***************************************************************************)
(* Properties of the validation and of the timeframe.                      *)
(***************************************************************************)
\* the messages validate_symbols raises for the request r after 3 attempts
ValidationMessages(r) ==
    {"exchange and symbol cannot be empty",
     "Invalid exchange:symbol '" \o r.exchange \o ":" \o r.symbol \o "'",
     "Invalid exchange:symbol '" \o r.exchange \o ":" \o r.symbol
         \o "' after 3 attempts"}

\* the step of get_candles that validates: nothing is sent, received or
\* closed; a failure returns the failed envelope with the message and the
\* call is over; a pass leaves the registration to come
ValidationStep ==
    (op = "candles" /\ gen = "called") =>
        /\ call_sent' = <<>>
        /\ ws' = ws
        /\ close_calls' = close_calls
        /\ consumed' = 0
        /\ rx_hb' = <<>>
        /\ (req.exchange = "" \/ req.symbol = "") => op' = "idle"
        /\ op' = "idle" =>
              /\ result'.status = "failed"
              /\ IsNone(result'.data)
              /\ \E msg \in ValidationMessages(req) : result'.error = Str(msg)
              /\ gen' = "none"
              /\ outcome' = "none"
        /\ op' # "idle" => (op' = "candles" /\ gen' = "none")

\* C11: when the validation of get_candles fails, the call returns a failed
\* envelope with the validation message, and during the call nothing is
\* sent on the socket and nothing is received: the registrations and the
\* receive loop never start.
C11_ValidationFailsBeforeIO == [][ValidationStep]_vars

\* a 404 of the scanner: the failed envelope, nothing sent
C11_Witness ==
    /\ CandlesReturned
    /\ result.status = "failed"
    /\ result.error = Str("Invalid exchange:symbol 'BINANCE:BTCUSDT'")
    /\ call_sent = <<>>
    /\ consumed = 0

SupportedTimeframes == {"1m", "5m", "15m", "30m", "1h", "2h", "4h", "1d", "1w", "1M"}

\* the request at hand is one of get_candles with an unsupported timeframe
BadTimeframe == IsCandles /\ req.timeframe \notin SupportedTimeframes

ProtocolValue(tf) ==
    CASE tf = "1m" -> "1" [] tf = "5m" -> "5" [] tf = "15m" -> "15"
      [] tf = "30m" -> "30" [] tf = "1h" -> "60" [] tf = "2h" -> "120"
      [] tf = "4h" -> "240" [] tf = "1d" -> "1D" [] tf = "1w" -> "1W"
      [] tf = "1M" -> "1M" [] OTHER -> "1"

TimeframeInputs == SupportedTimeframes \cup {"7h", "", "1H", "60", "1", "1mo"}

\* C13: the timeframe mapping is total: the ten supported values map to
\* their protocol values, every other string maps to "1", and create_series
\* is sent with the mapped value, the request going on as usual.
C13_TimeframeMappingTotal ==
    /\ \A tf \in TimeframeInputs : MappedTimeframe(tf) = ProtocolValue(tf)
    /\ (IsCandles /\ op = "candles" /\ gen = "recv") =>
          call_sent[3] = [m |-> "create_series",
                          p |-> <<chart_session, "sds_1", "s1", "sds_sym_1",
                                  ProtocolValue(req.timeframe), req.numb_candles, "">>]

\* a request with timeframe "7h" has returned "success" after create_series
\* went out with "1"
C13_Witness ==
    /\ CandlesReturned
    /\ req.timeframe = "7h"
    /\ result.status = "success"
    /\ consumed > 0
    /\ call_sent[3].p[5] = "1"

(***************************************************************************)
(* Properties of the failures.                                             *)
(***************************************************************************)
\* the exceptions that the processing of a packet's content raises
ContentErrors == {"KeyError", "AttributeError", "IndexError", "TypeError"}

\* C14: no incoming frame or fragment is fatal to a candle fetch: a fetch
\* whose receive loop has started never returns a failed envelope because of
\* the content of a fragment.
C14_NoFragmentIsFatal ==
    (CandlesReturned /\ outcome = "EXCEPTION") => result.error.str \notin ContentErrors

\* the metadata lookup with outcome o gave nothing to register
LookupFailed(o) == o # "ok"

\* the create_study calls of sent that carry the study id sid
StudiesSent(sent, sid) ==
    {n \in 1..Len(sent) : sent[n].m = "create_study" /\ sent[n].p[2] = sid}

\* st is what the registration of the indicators inds came to, the lookups
\* having had the outcomes metas, from the registration table before
SkipsOnlyTheFailed(st, inds, metas, before) ==
    /\ ~st.raised
    /\ \A n \in 1..Len(inds) :
          IF LookupFailed(metas[n])
          THEN /\ StudiesSent(st.sent, "st" \o ToString(8 + n)) = {}
               /\ ("st" \o ToString(8 + n)) \in DOMAIN st.map
                     => /\ ("st" \o ToString(8 + n)) \in DOMAIN before
                        /\ st.map["st" \o ToString(8 + n)]
                              = before["st" \o ToString(8 + n)]
          ELSE /\ Cardinality(StudiesSent(st.sent, "st" \o ToString(8 + n))) = 1
               /\ ("st" \o ToString(8 + n)) \in DOMAIN st.map
               /\ st.map["st" \o ToString(8 + n)] = inds[n][1]
    /\ \A n, q \in 1..Len(inds) :
          (n < q /\ ~LookupFailed(metas[n]) /\ ~LookupFailed(metas[q])) =>
              \A a \in StudiesSent(st.sent, "st" \o ToString(8 + n)) :
                  \A b \in StudiesSent(st.sent, "st" \o ToString(8 + q)) : a < b

\* C15: when the metadata lookup of a requested indicator fails, that
\* indicator alone is skipped (no create_study, no registration table
\* entry), the others are registered in order, and the request does not fail.
C15_FailedLookupSkipsOne ==
    (IsCandles /\ op = "candles" /\ gen = "none" /\ ws = "open") =>
        \A metas \in [1..Len(req.indicators) -> MetaOutcomes] :
            SkipsOnlyTheFailed(
                IndicatorsAdded(
                    SymbolAdded(
                        SendAll(<<>>, ws,
                                _add_symbol_to_sessions(
                                    quote_session, chart_session,
                                    format_symbol(req.exchange, req.symbol),
                                    req.timeframe, req.numb_candles),
                                0),
                        study_id_to_name_map),
                    req, metas, 0, quote_session, chart_session),
                req.indicators, metas, study_id_to_name_map)

(***************************************************************************)
(* Properties of the live price generator.                                 *)
(***************************************************************************)
\* the request at hand is one of stream_realtime_price
IsPrice == op = "price" \/ (op = "idle" /\ gen = "done" /\ "exchange" \in DOMAIN req
                                /\ ~IsCandles /\ client = "Streamer")

\* the prices of the updates the generator yields, one next() after the
\* other, over the fragments ps
RECURSIVE PricesFrom(_, _)
RECURSIVE PricesAfter(_, _)
PricesAfter(y, r) ==
    IF y.found THEN <<y.val.price>> \o PricesFrom(y.rest, r) ELSE <<>>

PricesFrom(ps, r) == PricesAfter(NextYield(ps, "price", r), r)

\* the qsd packets a raw message holds, in order
QsdPackets(raw) ==
    LET pieces == SelectSeq(SplitParts(raw),
                            LAMBDA piece : /\ Len(piece) = 1
                                           /\ piece[1] \in DOMAIN PacketTable
                                           /\ "m" \in DOMAIN PacketTable[piece[1]]
                                           /\ PacketTable[piece[1]].m = "qsd")
    IN [n \in 1..Len(pieces) |-> PacketTable[pieces[n][1]]]

\* the packet has an object as the second element of p
HasPayload(pkt) == Len(pkt.p) > 1 /\ pkt.p[2].t = "d"

\* v.lp of a qsd packet, None where there is none
LastPrice(pkt) ==
    IF /\ HasPayload(pkt)
       /\ HasKey(pkt.p[2].d, "v")
       /\ HasKey(Lookup(pkt.p[2].d, "v"), "lp")
    THEN [val |-> Lookup(Lookup(pkt.p[2].d, "v"), "lp")]
    ELSE [none |-> TRUE]

LastPrices(pkts) == [n \in 1..Len(pkts) |-> LastPrice(pkts[n])]

\* the raw messages the checks of the generator run over
StreamInputs == HeartbeatMsgs \cup StreamMsgs \cup DataMsgs

PriceFailed ==
    /\ IsPrice
    /\ op = "idle"
    /\ gen = "done"
    /\ outcome \in {"SOCKET_ERROR", "EXCEPTION"}

\* C17: whatever fails while the generator of stream_realtime_price is
\* iterated, the generator ends by exhaustion: no exception reaches the caller,
\* and the socket has been closed.
C17_SilentTermination == PriceFailed => (raised = "" /\ ws = "closed")


(***************************************************************************)
(* Properties of the life of the socket.                                   *)
(***************************************************************************)
\* a step taken by a client whose socket has been closed: the socket stays
\* closed, the sessions and the setup of the constructor are the ones it has,
\* nothing is received, and a get_candles call that returns has no data
NoReconnectStep ==
    ws = "closed" =>
        /\ ws' = "closed"
        /\ close_calls' = close_calls
        /\ <<client, quote_session, chart_session, init_sent>>'
              = <<client, quote_session, chart_session, init_sent>>
        /\ rx_hb' = <<>>
        /\ consumed' = 0
        /\ ohlcv_data' = <<>>
        /\ yielded' = <<>>
        /\ (op = "candles" /\ op' = "idle") =>
              /\ result'.status = "failed"
              /\ IsNone(result'.data)

\* C18: once the socket of a client has been closed, no later operation
\* reopens it or connects again, and a later get_candles call on the same
\* instance returns no candle data.
C18_NoReconnect == [][NoReconnectStep]_vars

\* a second get_candles call on a Streamer whose socket the first one closed
\* has failed at its first send
C18_Witness ==
    /\ CandlesReturned
    /\ ws = "closed"
    /\ close_calls >= 1
    /\ outcome = "none"
    /\ call_sent # <<>>
    /\ result.status = "failed"
    /\ result.error = Str("WebSocketException")


(***************************************************************************)
(* Properties of validate_symbols.                                         *)
(***************************************************************************)
\* the attempts validate_symbols may make that do not end in a plain error
Decisive(a) == {n \in 1..a.retries : a.http[n] # "error"}

\* the first of them
FirstDecisive(a) == CHOOSE n \in Decisive(a) : \A q \in Decisive(a) : n <= q

\* the call returned True
ReturnedTrue(out) == out.ok /\ out.val = TRUE

\* the call raised ValueError
RaisedValueError(out) == ~out.ok /\ out.exc # ""

\* C19: validate_symbols makes at most retries requests; it returns True at
\* the first attempt that succeeds, raises ValueError at once on a 404, raises
\* ValueError when the last allowed attempt fails, and for every value of
\* retries ends in one of these two ways.
C19_TrueOrValueError ==
    (v_pc = "done" /\ v_args.exchange # "" /\ v_args.symbol # "") =>
        /\ v_out.gets <= v_args.retries
        /\ ReturnedTrue(v_out) \/ RaisedValueError(v_out)
        /\ Decisive(v_args) # {} =>
              /\ v_out.gets = FirstDecisive(v_args)
              /\ ReturnedTrue(v_out) <=> v_args.http[FirstDecisive(v_args)] = "ok"
        /\ Decisive(v_args) = {} =>
              /\ v_out.gets = v_args.retries
              /\ RaisedValueError(v_out)


(***************************************************************************)
(* Properties of Minds.get_minds.                                          *)
(***************************************************************************)
\* the number of items the call returned
ItemsReturned == IF m_result.status = STATUS_SUCCESS THEN Len(m_result.data) ELSE 0

\* get_minds has returned, and it was called with a limit
ReturnedWithLimit == m_pc = "done" /\ ~IsNone(m_args.limit) /\ MindsValidation(m_args) = ""

\* C20: get_minds with limit n returns at most n items whatever pages the
\* server returns, exactly n when the pages fetched hold at least n items, and
\* requests no further page once the items it holds have reached n.
C20_LimitRespected ==
    /\ ReturnedWithLimit =>
          /\ ItemsReturned <= m_args.limit.val
          /\ Len(m_fetched) >= m_args.limit.val => ItemsReturned = m_args.limit.val
    /\ (m_pc \in {"loop", "done"} /\ ~IsNone(m_args.limit)) =>
          \A k \in 2..Len(m_gets) : m_gets[k].had < m_args.limit.val

\* limit 2: a page of one item with a cursor, then a page of two; the second
\* request carried the cursor, and two of the three items came back
C20_Witness ==
    /\ ReturnedWithLimit
    /\ m_args.limit = Val(2)
    /\ Len(m_gets) = 2
    /\ m_gets[2].c # <<>>
    /\ Len(m_fetched) = 3
    /\ m_result.status = STATUS_SUCCESS
    /\ Len(m_result.data) = 2


(***************************************************************************)
(* Properties of Ideas.get_data.                                           *)
(***************************************************************************)
\* get_data has returned from a call that passed the validation
IdeasReturned == i_pc = "done" /\ i_args.valid

\* every page of the request was fetched without failure
AllPagesGood == \A page \in PagesOf(i_args) : i_args.answers[page].kind = "items"

\* the mapped items of every page of the request
AllIdeas ==
    UNION {{_scrape_page(i_args, page)[j] : j \in 1..Len(_scrape_page(i_args, page))} :
           page \in PagesOf(i_args)}

\* data holds every element of the set items, each exactly once
HoldsEachOnce(data, items) ==
    /\ Len(data) = Cardinality(items)
    /\ \A it \in items : \E k \in 1..Len(data) : data[k] = it

\* C21: whatever the order in which the workers finish, get_data returns a
\* success envelope holding every item of every page exactly once, with total
\* the number of items and pages the length of the range, if every page
\* succeeds, and a failed envelope with a null data if a page met a captcha
\* or raised; nothing is raised to the caller.
C21_AllPagesOrNothing ==
    IdeasReturned =>
        /\ DOMAIN i_result = {"status", "data", "metadata", "error"}
        /\ AllPagesGood =>
              /\ i_result.status = STATUS_SUCCESS
              /\ HoldsEachOnce(i_result.data, AllIdeas)
              /\ i_result.metadata.total = Cardinality(AllIdeas)
              /\ i_result.metadata.pages = i_args.end_page - i_args.start_page + 1
        /\ ~AllPagesGood =>
              /\ i_result.status = STATUS_FAILED
              /\ IsNone(i_result.data)

\* four good pages for three workers, taken in another order than the pages'
C21_Witness ==
    /\ IdeasReturned
    /\ AllPagesGood
    /\ i_args.end_page - i_args.start_page + 1 > MaxWorkers
    /\ i_result.status = STATUS_SUCCESS
    /\ Len(i_result.data) = 4
    /\ i_result.data[1].title[1] > i_result.data[2].title[1]

\* a page that failed, taken after a good page had been collected
C21_FailureWitness ==
    /\ IdeasReturned
    /\ articles # <<>>
    /\ i_result.status = STATUS_FAILED


(***************************************************************************)
(* Termination of the receive loop.                                        *)
(***************************************************************************)
\* C22: whatever the socket goes on delivering, heartbeats only or fragments
\* that are not JSON included, the receive loop of get_candles ends and
\* get_candles returns.
C22_LoopTerminates == <>(op = "idle")


(***************************************************************************)
(* Properties of the registration of indicators.                           *)
(***************************************************************************)
\* the entry of study id sid is the one made for an indicator of request r
EntryOfRequest(map, sid, r) ==
    \E idx \in 0..(Len(r.indicators) - 1) :
        /\ sid = StudyId(idx)
        /\ map[sid] = r.indicators[idx + 1][1]

\* the receive loop of a get_candles call is running
InReceiveLoop == op = "candles" /\ gen = "recv"

\* C23: while the receive loop of a get_candles request runs, the table of
\* study ids holds only entries made for the indicators of that request:
\* nothing registered by an earlier request on the same Streamer is left.
C23_TableOfThisRequest ==
    InReceiveLoop =>
        \A sid \in DOMAIN study_id_to_name_map :
            EntryOfRequest(study_id_to_name_map, sid, req)


\* the positions of the create_study calls in what an operation sent
CreateStudies(sent) ==
    {n \in 1..Len(sent) : ~IsEcho(sent[n]) /\ sent[n].m = "create_study"}

\* the create_study call c is the one of the indicator at 0-based position
\* idx of request r: its script, the study id of the position in the second
\* slot, and the table entry of that id
StudyOfPosition(c, idx, r, map) ==
    /\ Lookup(c.p[6], "pineId") = r.indicators[idx + 1][1]
    /\ c.p[2] = "st" \o ToString(9 + idx)
    /\ c.p[2] \in DOMAIN map
    /\ map[c.p[2]] = r.indicators[idx + 1][1]

\* C24: within one get_candles request, the create_study call sent for the
\* indicator at 0-based position idx carries the study id "st" + (9 + idx) in
\* its second slot, the table maps that id to the indicator's script id, and
\* no study id is given to two indicators of the request.
C24_StudyIdsByPosition ==
    InReceiveLoop =>
        /\ \A n \in CreateStudies(call_sent) :
              \E idx \in 0..(Len(req.indicators) - 1) :
                  StudyOfPosition(call_sent[n], idx, req, study_id_to_name_map)
        /\ \A n, q \in CreateStudies(call_sent) :
              n < q => call_sent[n].p[2] # call_sent[q].p[2]

\* two indicators registered: st9 for the first, st10 for the second
C24_Witness ==
    /\ InReceiveLoop
    /\ Cardinality(CreateStudies(call_sent)) = 2
    /\ study_id_to_name_map = [st9 |-> "STD;RSI", st10 |-> "STD;MACD"]
    /\ \E n, q \in CreateStudies(call_sent) :
          /\ n < q
          /\ call_sent[n].p[2] = "st9"
          /\ call_sent[q].p[2] = "st10"


(***************************************************************************)
(* Properties of the order of the subscription calls.                      *)
(***************************************************************************)
IsCallEntry(e) == ~IsEcho(e)

\* the calls among what an operation sent, the heartbeats sent back left out
CallsOf(sent) == SelectSeq(sent, IsCallEntry)

\* the 0-based position that a create_study call names by its study id
PositionOf(c) == CHOOSE idx \in 0..9 : c.p[2] = "st" \o ToString(9 + idx)

\* calls is the four calls for the symbol, then per indicator create_study
\* and quote_hibernate_all, the indicators in the order of the request
SubscriptionOrder(calls) ==
    /\ Len(calls) >= 4
    /\ [n \in 1..4 |-> calls[n].m] =
          <<"quote_add_symbols", "resolve_symbol", "create_series",
            "quote_fast_symbols">>
    /\ \A n \in 5..Len(calls) :
          /\ calls[n].m = (IF n % 2 = 1 THEN "create_study"
                           ELSE "quote_hibernate_all")
          /\ n % 2 = 1 => n < Len(calls)
    /\ \A n, q \in 5..Len(calls) :
          (n < q /\ n % 2 = 1 /\ q % 2 = 1)
             => PositionOf(calls[n]) < PositionOf(calls[q])

\* a step of a running receive loop sends nothing but a heartbeat back
LoopSendsOnlyEchoes ==
    InReceiveLoop =>
        \/ call_sent' = call_sent
        \/ /\ Len(call_sent') = Len(call_sent) + 1
           /\ SubSeq(call_sent', 1, Len(call_sent)) = call_sent
           /\ IsEcho(call_sent'[Len(call_sent')])

\* whatever an operation sends, the six setup calls were sent before
SetupCameFirst ==
    call_sent' # call_sent => (Len(init_sent) = 6 /\ init_sent' = init_sent)

SubscriptionStep == LoopSendsOnlyEchoes /\ SetupCameFirst

RECURSIVE PacketsOf(_)
PacketsOf(raws) ==
    IF raws = <<>> THEN <<>>
    ELSE DecodedOf(SplitParts(Head(raws))) \o PacketsOf(Tail(raws))

\* the generator that get_ohlcv returned is suspended in recv or at a yield
OhlcvRunning == op = "ohlcv" /\ gen \in {"recv", "yield"}

\* C26: the packets the receive loop has yielded, followed by those it still
\* holds of the raw message it is working on, are exactly the JSON texts among
\* the frames of the raw messages received that are no heartbeat, in the order
\* of arrival and, within a raw message, of the frames; a frame that is no
\* JSON text is left out without a change to the frames around it, and a raw
\* message without a JSON text yields nothing.
C26_YieldsDecodableFragments ==
    OhlcvRunning => yielded \o DecodedOf(parts) = PacketsOf(rx_raws)

\* one raw message of three frames, the second no JSON text: the two packets
\* around it were yielded, in their order
C26_Witness ==
    /\ OhlcvRunning
    /\ rx_raws = <<Hdr(90) \o <<"{QSD}">> \o Hdr(3) \o <<"a", "b", "c">>
                      \o Hdr(90) \o <<"{QSD}">>>>
    /\ parts = <<>>
    /\ Len(yielded) = 2
    /\ yielded[1] = PD(PacketTable["{QSD}"])
    /\ yielded[2] = PD(PacketTable["{QSD}"])


(***************************************************************************)
(* Properties of the session identifiers.                                  *)
(***************************************************************************)
Connected == client \in {"Streamer", "RealTimeData"}

QuoteCalls == {"quote_add_symbols", "quote_fast_symbols", "quote_hibernate_all"}

ChartCalls == {"resolve_symbol", "create_series", "create_study"}

\* the call c names, in its first slot, the session that the setup call at
\* position n of the handshake created
NamesSessionOf(c, n) == c.p[1] = init_sent[n].p[1]

\* every call of sent that names a session names the one the handshake made
CarriesHandshakeIds(sent) ==
    \A n \in 1..Len(sent) :
        IsCallEntry(sent[n]) =>
            /\ sent[n].m \in QuoteCalls => NamesSessionOf(sent[n], 4)
            /\ sent[n].m \in ChartCalls => NamesSessionOf(sent[n], 3)

SessionsOfHandshake ==
    /\ quote_session \in {generate_session("qs_", d[1]) : d \in RandomDraws}
    /\ chart_session \in {generate_session("cs_", d[2]) : d \in RandomDraws}
    /\ Len(quote_session) = 15
    /\ Len(chart_session) = 15
    /\ init_sent[3] = Call("chart_create_session", <<chart_session, "">>)
    /\ init_sent[4] = Call("quote_create_session", <<quote_session>>)
    /\ CarriesHandshakeIds(call_sent)

SessionsKept ==
    Connected => (quote_session' = quote_session /\ chart_session' = chart_session)

\* C27: on a connection that came up, quote_session and chart_session are
\* "qs_" and "cs_" followed by the twelve letters drawn at construction, they
\* are the ids sent in quote_create_session and chart_create_session, no step
\* changes them, and every later call that names a session carries the id
\* sent in the handshake.
C27_SessionIdsImmutable ==
    /\ [](Connected => SessionsOfHandshake)
    /\ [][SessionsKept]_vars

\* a create_study call in a running receive loop names the chart session
C27_Witness ==
    /\ InReceiveLoop
    /\ chart_session = "cs_zzzzzzzzzzzz"
    /\ \E n \in CreateStudies(call_sent) : call_sent[n].p[1] = chart_session
    /\ \E n \in 1..Len(call_sent) :
          /\ IsCallEntry(call_sent[n])
          /\ call_sent[n] = Call("quote_hibernate_all", <<"qs_abcdefghijkl">>)


(***************************************************************************)
(* Properties of the stop condition with indicators left out.              *)
(***************************************************************************)
\* the request asked for more indicators than create_study calls were made
\* for: the lookup of one of them failed and line 298 skipped it
SomeIndicatorSkipped ==
    /\ IsCandles
    /\ Cardinality(CreateStudies(call_sent)) < Len(req.indicators)

\* C28: a get_candles request one of whose indicators was skipped because
\* its metadata lookup failed never ends its receive loop as SATISFIED: the
\* stop condition counts against the number of indicators requested, and the
\* names collected stay below it.
C28_SkippedNeverSatisfied ==
    (CandlesReturned /\ SomeIndicatorSkipped) => outcome # "SATISFIED"


(***************************************************************************)
(* Properties of send_message under send failures.                         *)
(***************************************************************************)
\* the calls among the first n of the sequence whose ws.send raised an error
\* that send_message swallows
RECURSIVE SwallowedAmong(_)
SwallowedAmong(n) ==
    IF n = 0 THEN <<>>
    ELSE SwallowedAmong(n - 1) \o
         (IF s_errs[n] \in SwallowedErrors THEN <<SequenceCalls[n]>> ELSE <<>>)

\* no ws.send of the sequence raises an error that send_message lets through
NothingLetThrough ==
    \A n \in 1..Len(s_errs) : s_errs[n] \in SwallowedErrors \cup {"ok"}

\* C29: a ConnectionError or TimeoutError raised by ws.send inside
\* send_message is swallowed: the call it hit is dropped and not sent again,
\* the calls after it are sent in their order, each once, the constructor
\* returns after the six setup calls and get_candles reaches its receive loop
\* after the four calls for the symbol; only an error of another kind ends
\* the sequence.
C29_SendFailureSwallowed ==
    s_pc # "off" =>
        /\ s_sent = SubSeq(SequenceCalls, 1, Len(s_sent))
        /\ s_dropped = SwallowedAmong(Len(s_sent))
        /\ s_pc = "failed" => s_errs[Len(s_sent)] \notin SwallowedErrors \cup {"ok"}
        /\ s_pc \in {"constructed", "loop"} <=>
              (Len(s_sent) = Len(SequenceCalls) /\ NothingLetThrough)

\* get_candles at its receive loop after the send of resolve_symbol raised a
\* ConnectionError and that of quote_fast_symbols a TimeoutError
C29_Witness ==
    /\ s_pc = "loop"
    /\ s_errs = <<"ok", "ConnectionError", "ok", "TimeoutError">>
    /\ s_sent = SymbolCalls
    /\ s_dropped = <<SymbolCalls[2], SymbolCalls[4]>>


(***************************************************************************)
(* Properties of the closing of the socket.                                *)
(***************************************************************************)
\* a step that closes the socket is the end of a running receive loop
ClosedByCleanupOnly ==
    (close_calls' # close_calls \/ (ws' = "closed" /\ ws # "closed")) =>
        /\ gen \in {"recv", "yield"}
        /\ gen' = "done"
        /\ close_calls' = close_calls + 1
        /\ ws' = "closed"

\* a get_candles call that ends before its receive loop started: the failed
\* envelope, no close, and the socket as it was unless the connection was
\* lost under the send that raised
EndsBeforeLoopUnclosed ==
    (op = "candles" /\ gen \in {"called", "none"} /\ op' = "idle") =>
        /\ result'.status = "failed"
        /\ outcome' = "none"
        /\ close_calls' = close_calls
        /\ ws' = ws \/ (ws = "open" /\ ws' = "lost")

ClosingStep == ClosedByCleanupOnly /\ EndsBeforeLoopUnclosed

\* C30: the socket is closed only by the cleanup of a receive loop; a
\* get_candles call that ends before its receive loop starts, by a failed
\* validation or by an exception during the registration of the symbol or of
\* the indicators, returns the failed envelope, issues no close and leaves
\* the socket unclosed.
C30_ClosedOnlyByLoopCleanup == [][ClosingStep]_vars

\* a call that failed during the registration of its indicators, after the
\* four calls for the symbol went out: the socket is open, nothing was closed
C30_Witness ==
    /\ CandlesReturned
    /\ outcome = "none"
    /\ result.status = "failed"
    /\ Len(call_sent) >= 4
    /\ ws = "open"
    /\ close_calls = 0

=============================================================================
